---- MODULE Spec2Model ----
(***************************************************************************)
(* State-machine model of the Schumann Lab audio engine (src/app.js):      *)
(* the audio-graph lifecycle (startGraph / stopCurrentAudio), the chord    *)
(* accompaniment loader, the two-tier guided phase scan (startTwoTierScan, *)
(* runScanPhase, stopExplore), strongest-phase marking and the persisted   *)
(* best-phase table.                                                       *)
(*                                                                         *)
(* Every handler of app.js is a pure operator from a state record to a     *)
(* state record (sequential assignments become nested EXCEPTs); an action  *)
(* applies one whole handler to the current state.                        *)
(*                                                                         *)
(* Numbers: bands are in hundredths of a hertz (7.83 Hz = 783); phases in  *)
(* the scan lists are whole degrees (the code only produces multiples of   *)
(* 10); a stored phase is an exact rational [num, den] because the         *)
(* incremental mean divides by the mark count.  Floating-point rounding    *)
(* of the mean is not modelled.                                            *)
(***************************************************************************)
EXTENDS Integers, Sequences, FiniteSets, TLC

\* ---------------------------------------------------------------- bounds
\* Number of startGraph calls explored in one behaviour.
MaxBuilds == 2
\* Cap on the marks held by the best-phase table (all bands together).
MaxCount == 1
\* Cap on the marks made on one scan candidate.
MaxScanMarks == 1
\* Cap on the mark count of the active band's record in MarkSpec.
MaxMarks == 3
\* Longest meditation session explored, in seconds.
MaxSession == 2

\* The band options of freqSelect / medFreqSelect explored (hundredths of Hz).
Bands == {783, 1430}

\* ------------------------------------------------------ program constants
Tier1Dwell == 3000
Tier1Fade == 1000
Tier2Dwell == 5000
Tier2Fade == 3000
DefaultP2 == 360
DegenerateSpan == 120
FullCircle == 360
CandidateCount == 7

\* ------------------------------------------------------------- rationals
RECURSIVE Gcd(_, _)
Gcd(a, b) == IF b = 0 THEN a ELSE Gcd(b, a % b)

\* A non-negative rational in lowest terms.
Rat(n, d) == LET g == Gcd(n, d) IN [num |-> n \div g, den |-> d \div g]

FromInt(x) == Rat(x, 1)

\* Number.prototype.toFixed(0) on a non-negative value: round half up.
ToFixed0(r) == (2 * r.num + r.den) \div (2 * r.den)

\* Faulty variant of IncrementalMean: halfway between the stored phase and
\* the mark, whatever the count.
IncrementalMeanHalfway(p, phase, count) ==
    Rat(p.num + phase * p.den, 2 * p.den)

\* Faulty variant of IncrementalMean: the stored phase is not subtracted from
\* the mark before the division.
IncrementalMeanOvershoot(p, phase, count) ==
    Rat(p.num * count + phase * p.den, p.den * count)

\* current.phase + (phase - current.phase) / count, phase a whole number.
IncrementalMean(p, phase, count) ==
    Rat(p.num * count + phase * p.den - p.num, p.den * count)

\* Arithmetic on non-negative rationals; den = 0 stands for a non-finite
\* value (NaN, Infinity).
NonFinite == [num |-> 1, den |-> 0]

IsFinite(r) == r.den # 0

\* a <= b, compared over the least common denominator.
RatLeq(a, b) ==
    LET l == (a.den \div Gcd(a.den, b.den)) * b.den
    IN  a.num * (l \div a.den) <= b.num * (l \div b.den)

RatMin(a, b) == IF RatLeq(a, b) THEN a ELSE b

RatMax(a, b) == IF RatLeq(a, b) THEN b ELSE a

RatMul(a, b) == Rat(a.num * b.num, a.den * b.den)

RatDiv(a, b) == Rat(a.num * b.den, a.den * b.num)

\* Sum and difference (a >= b) over the least common denominator.
RatAdd(a, b) ==
    LET l == (a.den \div Gcd(a.den, b.den)) * b.den
    IN  Rat(a.num * (l \div a.den) + b.num * (l \div b.den), l)

RatSub(a, b) ==
    LET l == (a.den \div Gcd(a.den, b.den)) * b.den
    IN  Rat(a.num * (l \div a.den) - b.num * (l \div b.den), l)

\* ------------------------------------------------------ reverb wet gain
\* An impulse-response AudioBuffer: channel count, samples per channel, and
\* level, the square root of the mean of its squared samples.  present is
\* FALSE for a null buffer.
NullBuffer ==
    [present |-> FALSE, channels |-> 0, length |-> 0, level |-> Rat(0, 1)]

\* getAudioBufferRms.
GetAudioBufferRms(buffer) ==
    IF ~buffer.present THEN Rat(0, 1)
    ELSE IF buffer.channels = 0 THEN Rat(0, 1)
    ELSE IF buffer.channels * buffer.length = 0 THEN Rat(0, 1)
    ELSE buffer.level

\* The base wet level of getCompensatedIrWetGain.
BaseWet(name) == IF name = "temple" THEN Rat(42, 100) ELSE Rat(58, 100)

TargetRms == Rat(12, 100)

\* Faulty variant of GetCompensatedIrWetGain: the outer clamp is left out.
GetUnclampedIrWetGain(name, buffer) ==
    LET rms == GetAudioBufferRms(buffer)
    IN  IF ~IsFinite(rms) \/ rms.num <= 0 THEN BaseWet(name)
        ELSE RatMul(BaseWet(name),
                    RatMax(Rat(5, 100),
                           RatMin(Rat(15, 10), RatDiv(TargetRms, rms))))

\* getCompensatedIrWetGain.
GetCompensatedIrWetGain(name, buffer) ==
    LET baseWet == BaseWet(name)
        rms == GetAudioBufferRms(buffer)
    IN  IF ~IsFinite(rms) \/ rms.num <= 0 THEN baseWet
        ELSE LET comp == RatMax(Rat(5, 100),
                                RatMin(Rat(15, 10), RatDiv(TargetRms, rms)))
             IN  RatMax(Rat(3, 100), RatMin(Rat(95, 100), RatMul(baseWet, comp)))

\* ------------------------------------------------------------ state
VARIABLES
    \* --- controls (DOM state read by the handlers)
    freqSelect,          \* freqSelect.value
    medFreqSelect,       \* medFreqSelect.value
    phaseRange,          \* phaseRange.value, whole degrees
    phaseRangeDisabled,  \* phaseRange.disabled
    sweepToggleDisabled, \* sweepToggle.disabled
    explorePlayDisabled, \* explorePlay.disabled
    exploreStopDisabled, \* exploreStop.disabled
    medPlayDisabled,     \* medPlay.disabled
    medStopDisabled,     \* medStop.disabled
    stimulationMode,     \* 'am' | 'binaural' | 'ambient' | 'spatial'
    chordInstrument,     \* 'none' | 'piano' | ...
    selectedChordLoop,   \* file id or "" (null)
    selectedIR,          \* 'none' | 'forest' | 'temple'
    birdsVal, wavesVal,  \* ambience sliders: 1 when the level is > 0
    carrierRange,        \* carrierRange.value, whole Hz
    \* --- environment
    chordManifest,       \* TRUE when the manifest lists loops for the instrument
    birdsSampleBuffer,   \* TRUE once the decoded birds sample is cached
    wavesSampleBuffer,   \* TRUE once the decoded waves sample is cached
    mediaOk,             \* FALSE when createMediaElementSource throws
    mathRandom,          \* what the next Math.random() call returns
    \* --- audio graph globals; a node reference is the number of the build
    \*     (startGraph call) that created it, 0 is null
    gen,                 \* number of startGraph calls so far
    masterGain, baseOsc, oceanSource, rainSource, wavesSource,
    birdsSource, birdsStreamEl, wavesStreamEl,
    birdsIsSample, wavesIsSample,
    motionLfo,
    extraNodes,          \* set of <<kind, build>>
    motionPanners,       \* set of <<kind, build>>
    chordOscs,           \* set of <<kind, build>>
    chordTimer, birdsPatternTimer, wavesPatternTimer,
    chordBufferSource,
    graphFreqHz,         \* the freqHz the live nodes were created for
    tone,                \* gains and frequencies of the live tone oscillators
    ambienceTaps,        \* ambience gains connected into the ambient delay pair
    \* --- session timer
    medTimerId,          \* id of the last scheduled tick, 0 is null
    medRemaining,        \* medEndTime - Date.now(), in seconds
    medTicks,            \* ids of the tick timeouts that are pending
    started,             \* sources started and not stopped: set of <<kind, build>>
    pendingChordLoads,   \* startChordLoop calls awaiting ensureChordBuffer
    irNodes,             \* convolution branch of a build: build -> [buffer, wet]
    pendingIRLoads,      \* loadIRBuffer calls in flight: set of [build, name]
    irBuffers,           \* names with a decoded buffer cached in irBuffers
    \* --- autosweep, scan and best-phase table
    sweepIsRunning,
    scanning, scanTier, scanPhases, scanCounts, scanIndex,
    scanTimeoutId,       \* id of the latest setTimeout, 0 before the first
    timers,              \* pending scan timeouts: set of [id, delay]
    bestPhaseByBand,     \* function: band key -> [phase, count]
    stored,              \* localStorage 'bestPhaseHistory'
    \* --- history (not program state): what the last handler was, the table
    \*     when the running scan started, whether the scan touched the table
    lastOp, preScan, scanTouched,
    \* --- argument and result of a pure block applied on drawn inputs
    callArgs, callRet

vars == << freqSelect, medFreqSelect, phaseRange, phaseRangeDisabled,
           sweepToggleDisabled, explorePlayDisabled, exploreStopDisabled,
           medPlayDisabled, medStopDisabled, stimulationMode, chordInstrument,
           selectedChordLoop, selectedIR, birdsVal, wavesVal, chordManifest,
           birdsSampleBuffer, wavesSampleBuffer, mediaOk, gen, masterGain,
           baseOsc, oceanSource, rainSource, wavesSource, birdsSource,
           birdsStreamEl, wavesStreamEl, birdsIsSample, wavesIsSample,
           motionLfo, extraNodes, motionPanners, chordOscs, chordTimer,
           birdsPatternTimer, wavesPatternTimer, chordBufferSource,
           graphFreqHz, started, pendingChordLoads, irNodes, pendingIRLoads,
           irBuffers, carrierRange, mathRandom, tone, ambienceTaps,
           medTimerId, medRemaining, medTicks,
           sweepIsRunning, scanning,
           scanTier, scanPhases, scanCounts, scanIndex, scanTimeoutId, timers,
           bestPhaseByBand, stored, lastOp, preScan, scanTouched,
           callArgs, callRet >>

\* The current state as one record, the argument of every handler.
St ==
    [ freqSelect |-> freqSelect, medFreqSelect |-> medFreqSelect,
      phaseRange |-> phaseRange, phaseRangeDisabled |-> phaseRangeDisabled,
      sweepToggleDisabled |-> sweepToggleDisabled,
      explorePlayDisabled |-> explorePlayDisabled,
      exploreStopDisabled |-> exploreStopDisabled,
      medPlayDisabled |-> medPlayDisabled, medStopDisabled |-> medStopDisabled,
      stimulationMode |-> stimulationMode, chordInstrument |-> chordInstrument,
      selectedChordLoop |-> selectedChordLoop, selectedIR |-> selectedIR,
      birdsVal |-> birdsVal, wavesVal |-> wavesVal,
      carrierRange |-> carrierRange, mathRandom |-> mathRandom, tone |-> tone,
      ambienceTaps |-> ambienceTaps, medTimerId |-> medTimerId,
      medRemaining |-> medRemaining, medTicks |-> medTicks,
      chordManifest |-> chordManifest,
      birdsSampleBuffer |-> birdsSampleBuffer,
      wavesSampleBuffer |-> wavesSampleBuffer, mediaOk |-> mediaOk,
      gen |-> gen, masterGain |-> masterGain, baseOsc |-> baseOsc,
      oceanSource |-> oceanSource, rainSource |-> rainSource,
      wavesSource |-> wavesSource, birdsSource |-> birdsSource,
      birdsStreamEl |-> birdsStreamEl, wavesStreamEl |-> wavesStreamEl,
      birdsIsSample |-> birdsIsSample, wavesIsSample |-> wavesIsSample,
      motionLfo |-> motionLfo, extraNodes |-> extraNodes,
      motionPanners |-> motionPanners, chordOscs |-> chordOscs,
      chordTimer |-> chordTimer, birdsPatternTimer |-> birdsPatternTimer,
      wavesPatternTimer |-> wavesPatternTimer,
      chordBufferSource |-> chordBufferSource, graphFreqHz |-> graphFreqHz,
      started |-> started, pendingChordLoads |-> pendingChordLoads,
      irNodes |-> irNodes, pendingIRLoads |-> pendingIRLoads,
      irBuffers |-> irBuffers,
      sweepIsRunning |-> sweepIsRunning, scanning |-> scanning,
      scanTier |-> scanTier, scanPhases |-> scanPhases,
      scanCounts |-> scanCounts, scanIndex |-> scanIndex,
      scanTimeoutId |-> scanTimeoutId, timers |-> timers,
      bestPhaseByBand |-> bestPhaseByBand, stored |-> stored,
      lastOp |-> lastOp, preScan |-> preScan, scanTouched |-> scanTouched,
      callArgs |-> callArgs, callRet |-> callRet ]

\* The next state is the record s.
Apply(s) ==
    /\ freqSelect' = s.freqSelect
    /\ medFreqSelect' = s.medFreqSelect
    /\ phaseRange' = s.phaseRange
    /\ phaseRangeDisabled' = s.phaseRangeDisabled
    /\ sweepToggleDisabled' = s.sweepToggleDisabled
    /\ explorePlayDisabled' = s.explorePlayDisabled
    /\ exploreStopDisabled' = s.exploreStopDisabled
    /\ medPlayDisabled' = s.medPlayDisabled
    /\ medStopDisabled' = s.medStopDisabled
    /\ stimulationMode' = s.stimulationMode
    /\ chordInstrument' = s.chordInstrument
    /\ selectedChordLoop' = s.selectedChordLoop
    /\ selectedIR' = s.selectedIR
    /\ birdsVal' = s.birdsVal
    /\ wavesVal' = s.wavesVal
    /\ carrierRange' = s.carrierRange
    /\ mathRandom' = s.mathRandom
    /\ tone' = s.tone
    /\ ambienceTaps' = s.ambienceTaps
    /\ medTimerId' = s.medTimerId
    /\ medRemaining' = s.medRemaining
    /\ medTicks' = s.medTicks
    /\ chordManifest' = s.chordManifest
    /\ birdsSampleBuffer' = s.birdsSampleBuffer
    /\ wavesSampleBuffer' = s.wavesSampleBuffer
    /\ mediaOk' = s.mediaOk
    /\ gen' = s.gen
    /\ masterGain' = s.masterGain
    /\ baseOsc' = s.baseOsc
    /\ oceanSource' = s.oceanSource
    /\ rainSource' = s.rainSource
    /\ wavesSource' = s.wavesSource
    /\ birdsSource' = s.birdsSource
    /\ birdsStreamEl' = s.birdsStreamEl
    /\ wavesStreamEl' = s.wavesStreamEl
    /\ birdsIsSample' = s.birdsIsSample
    /\ wavesIsSample' = s.wavesIsSample
    /\ motionLfo' = s.motionLfo
    /\ extraNodes' = s.extraNodes
    /\ motionPanners' = s.motionPanners
    /\ chordOscs' = s.chordOscs
    /\ chordTimer' = s.chordTimer
    /\ birdsPatternTimer' = s.birdsPatternTimer
    /\ wavesPatternTimer' = s.wavesPatternTimer
    /\ chordBufferSource' = s.chordBufferSource
    /\ graphFreqHz' = s.graphFreqHz
    /\ started' = s.started
    /\ pendingChordLoads' = s.pendingChordLoads
    /\ irNodes' = s.irNodes
    /\ pendingIRLoads' = s.pendingIRLoads
    /\ irBuffers' = s.irBuffers
    /\ sweepIsRunning' = s.sweepIsRunning
    /\ scanning' = s.scanning
    /\ scanTier' = s.scanTier
    /\ scanPhases' = s.scanPhases
    /\ scanCounts' = s.scanCounts
    /\ scanIndex' = s.scanIndex
    /\ scanTimeoutId' = s.scanTimeoutId
    /\ timers' = s.timers
    /\ bestPhaseByBand' = s.bestPhaseByBand
    /\ stored' = s.stored
    /\ lastOp' = s.lastOp
    /\ preScan' = s.preScan
    /\ scanTouched' = s.scanTouched
    /\ callArgs' = s.callArgs
    /\ callRet' = s.callRet

\* ------------------------------------------------------ audio graph
\* stopChordBuffer: stop the pre-rendered loop source, if one is referenced.
StopChordBuffer(s) ==
    IF s.chordBufferSource # 0
    THEN [s EXCEPT !.started = @ \ {<<"chordLoopSrc", s.chordBufferSource>>},
                   !.chordBufferSource = 0]
    ELSE s

\* stopChordProgression: clear the chord interval, stop the chord
\* oscillators, then stop any loop.
StopChordProgression(s) ==
    StopChordBuffer([s EXCEPT !.chordTimer = 0,
                              !.started = @ \ s.chordOscs,
                              !.chordOscs = {}])

\* The nodes stopCurrentAudio calls stop() on through its own references.
TeardownStops(s) ==
    { <<"baseOsc", s.baseOsc>>, <<"oceanSource", s.oceanSource>>,
      <<"rainSource", s.rainSource>>, <<"wavesSource", s.wavesSource>>,
      <<"motionLfo", s.motionLfo>> } \cup s.extraNodes

\* No tone oscillator is reachable: the graph is torn down or was never built.
NoTone == [mode |-> "none"]

\* stopCurrentAudio.
StopCurrentAudio(s) ==
    LET s1 == [s EXCEPT !.started = @ \ TeardownStops(s),
                        !.extraNodes = {},
                        !.motionLfo = 0,
                        !.motionPanners = {}]
        s2 == StopChordProgression(s1)
    IN  [s2 EXCEPT !.birdsPatternTimer = 0, !.wavesPatternTimer = 0,
                   !.baseOsc = 0, !.masterGain = 0, !.oceanSource = 0,
                   !.rainSource = 0, !.wavesSource = 0, !.tone = NoTone,
                   !.ambienceTaps = {}]

\* startChordLoop up to its await: the load is pending, tagged with the
\* build that asked for it.
StartChordLoop(s) ==
    LET s1 == StopChordBuffer(s)
    IN  IF s1.chordInstrument = "none" \/ s1.selectedChordLoop = ""
        THEN s1
        ELSE [s1 EXCEPT !.pendingChordLoads = @ \cup {s1.gen}]

\* startChordLoop after its await, for the load requested by build req;
\* ok is FALSE when ensureChordBuffer returned null.  Connecting to a null
\* masterGain throws, which ends the function after the two pushes.
ChordLoopResume(s, req, ok) ==
    LET s1 == [s EXCEPT !.pendingChordLoads = @ \ {req}]
        s2 == [s1 EXCEPT !.motionPanners = @ \cup {<<"loopPan", req>>},
                         !.extraNodes = @ \cup {<<"loopPan", req>>}]
    IN  IF ~ok THEN s1
        ELSE IF s2.masterGain = 0 THEN s2
        ELSE [s2 EXCEPT !.started = @ \cup {<<"chordLoopSrc", req>>},
                        !.chordBufferSource = req]

\* startChordProgression: a loop when the manifest has loops for the
\* instrument and one is selected, else the synthesised triad cycle.
StartChordProgression(s) ==
    LET s1 == StopChordBuffer(StopChordProgression(s))
        g == s1.gen
    IN  IF s1.chordInstrument = "none" THEN s1
        ELSE IF s1.chordManifest /\ s1.selectedChordLoop # ""
        THEN StartChordLoop(s1)
        ELSE [s1 EXCEPT !.motionPanners = @ \cup {<<"chordPan", g>>},
                        !.extraNodes = @ \cup {<<"chordPan", g>>},
                        !.chordOscs = {<<"chordOsc", g>>},
                        !.started = @ \cup {<<"chordOsc", g>>},
                        !.chordTimer = g]

\* updateSoundscapes: a sampled (decoded or streamed) layer clears its
\* pattern timer, otherwise start{Birds,Waves}Pattern re-arms it when the
\* graph exists and the level is positive.
UpdateSoundscapes(s) ==
    [s EXCEPT
       !.birdsPatternTimer =
           IF s.birdsIsSample THEN 0
           ELSE IF s.masterGain # 0 /\ s.birdsVal > 0 THEN s.gen ELSE 0,
       !.wavesPatternTimer =
           IF s.wavesIsSample THEN 0
           ELSE IF s.masterGain # 0 /\ s.wavesVal > 0 THEN s.gen ELSE 0]

\* mapBandToAudible.
MapBandToAudible(freqHz) == RatAdd(FromInt(200), RatMul(FromInt(3), freqHz))

\* Assignment to AudioParam.value, a single-precision float: the nearest
\* multiple of 2^-16 for 128 <= r < 256 and of 2^-15 for 256 <= r < 512, ties
\* to even.  The double arithmetic before the assignment is taken as exact;
\* its error is far below half a unit in the last place of a float.
ToFloat32(r) ==
    LET u   == IF r.num < 256 * r.den THEN 65536 ELSE 32768
        g   == Gcd(u, r.den)
        n   == r.num * (u \div g)
        d   == r.den \div g
        q   == n \div d
        rem == n % d
        m   == IF 2 * rem > d THEN q + 1
               ELSE IF 2 * rem = d THEN q + (q % 2)
               ELSE q
    IN  Rat(m, u)

\* Faulty variant of BinauralBuild: each oscillator is offset by the whole
\* band.
BinauralBuildFullOffset(freqHz) ==
    LET audibleHz == MapBandToAudible(freqHz)
    IN  [ baseGain  |-> Rat(0, 1),
          leftFreq  |-> ToFloat32(RatAdd(audibleHz, freqHz)),
          rightFreq |-> ToFloat32(RatSub(audibleHz, freqHz)) ]

\* startGraph, stimulationMode 'binaural': the carrier gain and the
\* frequencies of the two hard-panned oscillators.
BinauralBuild(freqHz) ==
    LET audibleHz == MapBandToAudible(freqHz)
        halfDiff  == RatDiv(freqHz, FromInt(2))
    IN  [ baseGain  |-> Rat(0, 1),
          leftFreq  |-> ToFloat32(RatAdd(audibleHz, halfDiff)),
          rightFreq |-> ToFloat32(RatSub(audibleHz, halfDiff)) ]

\* The extra nodes of the selected stimulation mode, and those of them that
\* are started sources.
ModeNodes(mode, g) ==
    CASE mode = "am" -> {<<"modOsc", g>>, <<"modGain", g>>, <<"offset", g>>}
      [] mode = "binaural" -> {<<"leftOsc", g>>, <<"rightOsc", g>>,
                               <<"leftPan", g>>, <<"rightPan", g>>}
      [] mode = "ambient" -> {}
      [] OTHER -> {<<"leftEchoOsc", g>>, <<"rightEchoOsc", g>>,
                   <<"leftDelay", g>>, <<"rightDelay", g>>}

ModeSources(mode, g) ==
    CASE mode = "am" -> {<<"modOsc", g>>, <<"offset", g>>}
      [] mode = "binaural" -> {<<"leftOsc", g>>, <<"rightOsc", g>>}
      [] mode = "ambient" -> {}
      [] OTHER -> {<<"leftEchoOsc", g>>, <<"rightEchoOsc", g>>}

\* Faulty variant of CreateBandSplitEchoCluster: the split fraction ranges
\* over 20% .. 80%.
CreateBandSplitEchoClusterWide(audibleHz, freqHz, random) ==
    LET randFrac  == RatAdd(Rat(2, 10), RatMul(random, Rat(6, 10)))
        leftDiff  == RatMul(freqHz, randFrac)
        rightDiff == RatMul(freqHz, RatSub(FromInt(1), randFrac))
    IN  [ mode      |-> "spatial",
          baseFreq  |-> ToFloat32(audibleHz),
          baseGain  |-> Rat(21, 100),
          randFrac  |-> randFrac,
          leftDiff  |-> leftDiff,
          rightDiff |-> rightDiff,
          leftFreq  |-> ToFloat32(RatAdd(audibleHz, leftDiff)),
          rightFreq |-> ToFloat32(RatSub(audibleHz, rightDiff)) ]

\* createBandSplitEchoCluster: the split fraction drawn from Math.random,
\* the two offsets, the carrier gain (as a multiple of depthVal * toneMix)
\* and the frequencies stored in the two echo oscillators.
CreateBandSplitEchoCluster(audibleHz, freqHz, random) ==
    LET splitMin  == Rat(35, 100)
        splitMax  == Rat(65, 100)
        randFrac  == RatAdd(splitMin, RatMul(random, RatSub(splitMax, splitMin)))
        leftDiff  == RatMul(freqHz, randFrac)
        rightDiff == RatMul(freqHz, RatSub(FromInt(1), randFrac))
    IN  [ mode      |-> "spatial",
          baseFreq  |-> ToFloat32(audibleHz),
          baseGain  |-> Rat(21, 100),
          randFrac  |-> randFrac,
          leftDiff  |-> leftDiff,
          rightDiff |-> rightDiff,
          leftFreq  |-> ToFloat32(RatAdd(audibleHz, leftDiff)),
          rightFreq |-> ToFloat32(RatSub(audibleHz, rightDiff)) ]

\* startGraph, the tone section: the carrier oscillator and the oscillators
\* of the selected stimulation mode.
BuildTone(mode, freqHz, random) ==
    LET audibleHz == MapBandToAudible(freqHz)
    IN  CASE mode = "am" ->
               [ mode |-> "am", baseFreq |-> ToFloat32(audibleHz),
                 baseGain |-> Rat(6, 10), modFreq |-> freqHz ]
          [] mode = "binaural" ->
               [ mode |-> "binaural", baseFreq |-> ToFloat32(audibleHz),
                 baseGain |-> BinauralBuild(freqHz).baseGain,
                 leftFreq |-> BinauralBuild(freqHz).leftFreq,
                 rightFreq |-> BinauralBuild(freqHz).rightFreq ]
          [] mode = "ambient" ->
               [ mode |-> "ambient", baseFreq |-> ToFloat32(audibleHz),
                 baseGain |-> Rat(0, 1) ]
          [] OTHER -> CreateBandSplitEchoCluster(audibleHz, freqHz, random)

\* The ambience part of startGraph: which birds / waves source is created.
BuildAmbience(s, g) ==
    LET b == IF s.birdsSampleBuffer
             THEN [s EXCEPT !.birdsIsSample = TRUE, !.birdsSource = g]
             ELSE IF s.mediaOk
             THEN [s EXCEPT !.birdsIsSample = TRUE, !.birdsStreamEl = g]
             ELSE [s EXCEPT !.birdsIsSample = FALSE]
    IN  IF b.wavesSampleBuffer
        THEN [b EXCEPT !.wavesIsSample = TRUE, !.wavesSource = g]
        ELSE IF b.mediaOk
        THEN [b EXCEPT !.wavesIsSample = TRUE, !.wavesStreamEl = g]
        ELSE [b EXCEPT !.wavesIsSample = FALSE, !.wavesSource = g]

\* The sources startGraph starts at its end ("Start sources").
StartedByBuild(s) ==
    { <<"baseOsc", s.baseOsc>>, <<"oceanSource", s.oceanSource>>,
      <<"rainSource", s.rainSource>> }
    \cup (IF s.wavesSource # 0 THEN {<<"wavesSource", s.wavesSource>>} ELSE {})
    \cup (IF s.birdsSource # 0 THEN {<<"birdsSource", s.birdsSource>>} ELSE {})
    \cup (IF s.wavesStreamEl # 0 THEN {<<"wavesStreamEl", s.wavesStreamEl>>} ELSE {})
    \cup (IF s.birdsStreamEl # 0 THEN {<<"birdsStreamEl", s.birdsStreamEl>>} ELSE {})

\* table with key set to rec (object property assignment).
Put(table, key, rec) ==
    [k \in DOMAIN table \cup {key} |-> IF k = key THEN rec ELSE table[k]]

\* The decoded impulse response of each space: assets/ir/temple.wav is at
\* the target level, assets/ir/forest.wav at twice that level.
IrFile(name) ==
    [present |-> TRUE, channels |-> 2, length |-> 1,
     level |-> IF name = "temple" THEN Rat(12, 100) ELSE Rat(24, 100)]

\* Faulty variant of NewIrBranch: the wet gain starts at the base level.
NewIrBranchAudible == [buffer |-> "none", wet |-> Rat(58, 100)]

\* The convolver and wet gain startGraph creates: no buffer, gain 0.
NewIrBranch == [buffer |-> "none", wet |-> Rat(0, 1)]

\* The then-callback of loadIRBuffer for the load l; ok is FALSE when the
\* promise resolved with null.  conv and wetGain are those of the build
\* that made the call, selectedIR is read when the callback runs.
IRLoadResume(s, l, ok) ==
    LET s1 == [s EXCEPT !.pendingIRLoads = @ \ {l}]
    IN  IF ~ok THEN s1
        ELSE [s1 EXCEPT
                !.irBuffers = @ \cup {l.name},
                !.irNodes = Put(@, l.build,
                    [buffer |-> l.name,
                     wet |-> GetCompensatedIrWetGain(s.selectedIR,
                                                     IrFile(l.name))])]

\* startGraph, "If a reverb space is selected": the branch is created
\* silent and the load is requested.  A cached buffer resolves the promise
\* before any other handler runs; otherwise the load stays in flight.
AttachReverb(s, g) ==
    IF s.selectedIR = "none" THEN s
    ELSE LET l  == [build |-> g, name |-> s.selectedIR]
             s1 == [s EXCEPT !.irNodes = Put(@, g, NewIrBranch),
                             !.pendingIRLoads = @ \cup {l}]
         IN  IF s.selectedIR \in s.irBuffers
             THEN IRLoadResume(s1, l, TRUE)
             ELSE s1

\* startGraph(freqHz): tear the previous graph down, then build and start.
StartGraph(s, freqHz) ==
    LET s0 == StopCurrentAudio(s)
        g == s0.gen + 1
        ir == IF s0.selectedIR # "none"
              THEN {<<"conv", g>>, <<"wetGain", g>>} ELSE {}
        pans == {<<"oceanPan", g>>, <<"rainPan", g>>, <<"birdsPan", g>>,
                 <<"wavesPan", g>>}
        amb == IF s0.stimulationMode = "ambient"
               THEN {<<"ambLeftDelay", g>>, <<"ambRightDelay", g>>} ELSE {}
        taps == IF s0.stimulationMode = "ambient"
                THEN {"oceanGain", "rainGain", "birdsGain", "wavesGain"} ELSE {}
        s1 == [s0 EXCEPT
                 !.gen = g, !.masterGain = g, !.graphFreqHz = freqHz,
                 !.motionPanners = pans,
                 !.motionLfo = g, !.baseOsc = g,
                 !.tone = BuildTone(s0.stimulationMode, Rat(freqHz, 100),
                                    s0.mathRandom),
                 !.ambienceTaps = taps,
                 !.oceanSource = g, !.rainSource = g,
                 !.extraNodes = ir \cup {<<"motionLfo", g>>, <<"motionGainNode", g>>}
                                \cup ModeNodes(s0.stimulationMode, g)
                                \cup pans \cup amb,
                 !.started = @ \cup {<<"motionLfo", g>>}
                               \cup ModeSources(s0.stimulationMode, g)]
        s2 == BuildAmbience(AttachReverb(s1, g), g)
        s3 == [s2 EXCEPT !.started = @ \cup StartedByBuild(s2)]
    IN  StartChordProgression(UpdateSoundscapes(s3))

\* ------------------------------------------------------ best-phase table
\* savePhaseHistory: localStorage holds a copy of the in-memory table.
SavePhaseHistory(s) == [s EXCEPT !.stored = s.bestPhaseByBand]

\* scanCounts[i] || 0 on the sparse counter array.
CountAt(counts, i) == IF i \in DOMAIN counts THEN counts[i] ELSE 0

\* The record handleMarkStrongest writes for a mark at phase.
MarkedRecord(table, key, phase) ==
    IF key \notin DOMAIN table
    THEN [phase |-> FromInt(phase), count |-> 1]
    ELSE [phase |-> IncrementalMean(table[key].phase, phase, table[key].count + 1),
          count |-> table[key].count + 1]

\* Faulty variant of HandleMarkStrongest: the counter of the presented
\* candidate is set to 1 instead of being incremented.
HandleMarkStrongestCapped(s) ==
    LET phase == s.phaseRange
        s1 == IF s.scanning
              THEN [s EXCEPT !.scanCounts =
                       [i \in DOMAIN s.scanCounts \cup {s.scanIndex} |->
                           IF i = s.scanIndex THEN 1 ELSE s.scanCounts[i]]]
              ELSE s
        key == s1.freqSelect
    IN  SavePhaseHistory(
          [s1 EXCEPT !.bestPhaseByBand =
              Put(s1.bestPhaseByBand, key,
                  MarkedRecord(s1.bestPhaseByBand, key, phase))])

\* handleMarkStrongest.
HandleMarkStrongest(s) ==
    LET phase == s.phaseRange
        s1 == IF s.scanning
              THEN [s EXCEPT !.scanCounts =
                       [i \in DOMAIN s.scanCounts \cup {s.scanIndex} |->
                           IF i = s.scanIndex
                           THEN CountAt(s.scanCounts, i) + 1
                           ELSE s.scanCounts[i]]]
              ELSE s
        key == s1.freqSelect
    IN  SavePhaseHistory(
          [s1 EXCEPT !.bestPhaseByBand =
              Put(s1.bestPhaseByBand, key,
                  MarkedRecord(s1.bestPhaseByBand, key, phase))])

\* clearBestPhaseForBand(key): the record is deleted from the in-memory
\* table; savePhaseHistory is not called.
ClearBestPhaseForBand(s, key) ==
    [s EXCEPT !.bestPhaseByBand = [k \in DOMAIN @ \ {key} |-> @[k]]]

\* handleClearHistory: after the confirm dialog every record is deleted and
\* the localStorage item is removed, which loadPhaseHistory reads as {}.
HandleClearHistory(s, confirmed) ==
    IF ~confirmed THEN s
    ELSE [s EXCEPT !.bestPhaseByBand = [k \in {} |-> 0],
                   !.stored = [k \in {} |-> 0]]

\* ------------------------------------------------------ two-tier scan
\* stopAutosweep.
StopAutosweep(s) ==
    IF ~s.sweepIsRunning THEN s ELSE [s EXCEPT !.sweepIsRunning = FALSE]

\* (elapsed % duration) / duration at the frames the model draws: the start
\* of a cycle, a quarter of it, and its last 1/720.
SweepFractions == {Rat(0, 1), Rat(1, 4), Rat(719, 720)}

\* startAutosweep, step: the slider follows frac * 360, shown with toFixed(0).
SweepStep(s, frac) ==
    IF ~s.sweepIsRunning THEN s
    ELSE [s EXCEPT !.phaseRange = ToFixed0(Rat(frac.num * 360, frac.den))]

\* startAutosweep (sweepSeconds holds a positive duration).
StartAutosweep(s) ==
    IF s.sweepIsRunning THEN s
    ELSE SweepStep([s EXCEPT !.sweepIsRunning = TRUE], Rat(0, 1))

\* toggleAutosweep.
ToggleAutosweep(s) ==
    IF s.sweepIsRunning THEN StopAutosweep(s) ELSE StartAutosweep(s)

\* Faulty variant of Tier1Phases: the closing 360 is left out.
Tier1PhasesOpenEnded == <<0, 60, 120, 180, 240, 300>>

\* The coarse list of runScanPhase.
Tier1Phases == <<0, 60, 120, 180, 240, 300, 360>>

\* scanPhases.map((p, i) => ({phase: p, count: scanCounts[i] || 0})).
Results(phases, counts) ==
    [i \in 1..Len(phases) |->
        [phase |-> phases[i], count |-> CountAt(counts, i - 1)]]

\* One element inserted into a list sorted by descending count, after the
\* elements of equal count (Array.prototype.sort is stable).
RECURSIVE InsertByCount(_, _)
InsertByCount(sorted, r) ==
    IF sorted = <<>> THEN <<r>>
    ELSE IF Head(sorted).count >= r.count
    THEN <<Head(sorted)>> \o InsertByCount(Tail(sorted), r)
    ELSE <<r>> \o sorted

\* results.sort((a, b) => b.count - a.count).
RECURSIVE SortByCountDesc(_)
SortByCountDesc(results) ==
    IF results = <<>> THEN <<>>
    ELSE InsertByCount(SortByCountDesc(SubSeq(results, 1, Len(results) - 1)),
                       results[Len(results)])

\* The two endpoints <<p1, p2>> the fine tier sweeps between.
Tier2Endpoints(results) ==
    LET sorted == SortByCountDesc(results)
        a == IF Len(sorted) >= 1 THEN sorted[1].phase ELSE 0
        b == IF Len(sorted) >= 2 THEN sorted[2].phase ELSE DefaultP2
        p1 == IF b < a THEN b ELSE a
        q == IF b < a THEN a ELSE b
        p2 == IF p1 = q THEN (p1 + DegenerateSpan) % FullCircle ELSE q
    IN  <<p1, p2>>

\* Faulty variant of Tier2Sweep: the span is cut into as many steps as
\* there are candidates, so the last candidate falls short of p2.
Tier2SweepSevenths(p1, p2) ==
    LET span == (p2 - p1 + FullCircle) % FullCircle
        step == span \div CandidateCount
    IN  [i \in 1..CandidateCount |->
            (p1 + step * (i - 1) + FullCircle) % FullCircle]

\* The 7 fine candidates between the endpoints.
Tier2Sweep(p1, p2) ==
    LET span == (p2 - p1 + FullCircle) % FullCircle
        step == span \div (CandidateCount - 1)
    IN  [i \in 1..CandidateCount |->
            (p1 + step * (i - 1) + FullCircle) % FullCircle]

\* The fine list computed from the previous tier's results.
Tier2Phases(results) ==
    LET e == Tier2Endpoints(results) IN Tier2Sweep(e[1], e[2])

\* dwell and fade of a tier, in ms.
Dwell(tier) == IF tier = 1 THEN Tier1Dwell ELSE Tier2Dwell
Fade(tier) == IF tier = 1 THEN Tier1Fade ELSE Tier2Fade

\* The id setTimeout returns: one no pending timer has.
FreshTimerId(pending) ==
    CHOOSE n \in 1..(Cardinality(pending) + 1) :
        /\ \A t \in pending : t.id # n
        /\ \A m \in 1..(n - 1) : \E t \in pending : t.id = m

\* Faulty variant of BestPhase: ties go to the last candidate.
BestPhaseLastMax(phases, counts) ==
    LET last == CHOOSE i \in 1..Len(phases) :
                    \A j \in 1..Len(phases) :
                        \/ CountAt(counts, j - 1) < CountAt(counts, i - 1)
                        \/ CountAt(counts, j - 1) = CountAt(counts, i - 1) /\ j <= i
    IN  phases[last]

\* The final best phase: the first entry of the results sorted by count.
BestPhase(phases, counts) ==
    LET sorted == SortByCountDesc(Results(phases, counts))
    IN  IF Len(sorted) >= 1 THEN sorted[1].phase ELSE phases[1]

\* Faulty variant of CompletedRecord: the best phase is merged by the
\* incremental mean, as a mark is.
CompletedRecordMean(table, key, best) ==
    IF key \notin DOMAIN table
    THEN [phase |-> FromInt(best), count |-> 1]
    ELSE [phase |-> IncrementalMean(table[key].phase, best, table[key].count + 1),
          count |-> table[key].count + 1]

\* The record written when the fine tier completes.
CompletedRecord(table, key, best) ==
    IF key \notin DOMAIN table
    THEN [phase |-> FromInt(best), count |-> 1]
    ELSE [phase |-> FromInt(best), count |-> table[key].count]

\* Faulty variant of CompleteScan: the tier number is left at 2.
CompleteScanKeepsTier(s) ==
    LET best == BestPhase(s.scanPhases, s.scanCounts)
        key == s.freqSelect
        s1 == SavePhaseHistory(
                [s EXCEPT !.bestPhaseByBand =
                    Put(s.bestPhaseByBand, key,
                        CompletedRecord(s.bestPhaseByBand, key, best))])
    IN  [s1 EXCEPT !.phaseRange = ToFixed0(FromInt(best)),
                   !.scanning = FALSE,
                   !.scanPhases = <<>>, !.scanCounts = <<>>, !.scanIndex = 0,
                   !.sweepToggleDisabled = FALSE,
                   !.phaseRangeDisabled = FALSE]

\* runScanPhase, "Completed second tier" branch.
CompleteScan(s) ==
    LET best == BestPhase(s.scanPhases, s.scanCounts)
        key == s.freqSelect
        s1 == SavePhaseHistory(
                [s EXCEPT !.bestPhaseByBand =
                    Put(s.bestPhaseByBand, key,
                        CompletedRecord(s.bestPhaseByBand, key, best))])
    IN  [s1 EXCEPT !.phaseRange = ToFixed0(FromInt(best)),
                   !.scanning = FALSE, !.scanTier = 0,
                   !.scanPhases = <<>>, !.scanCounts = <<>>, !.scanIndex = 0,
                   !.sweepToggleDisabled = FALSE,
                   !.phaseRangeDisabled = FALSE]

\* runScanPhase, "Set phase for current scan index" to the end.
PresentCandidate(s) ==
    LET target == s.scanPhases[s.scanIndex + 1]
        id == FreshTimerId(s.timers)
    IN  [s EXCEPT !.phaseRange = ToFixed0(FromInt(target)),
                  !.scanTimeoutId = id,
                  !.timers = @ \cup {[id |-> id,
                                      delay |-> Dwell(s.scanTier) + Fade(s.scanTier)]}]

\* runScanPhase, "On first index of a tier, compute the phases to sweep".
ComputePhases(s) ==
    IF s.scanIndex = 0 /\ Len(s.scanPhases) = 0
    THEN IF s.scanTier = 1 THEN [s EXCEPT !.scanPhases = Tier1Phases]
         ELSE IF s.scanTier = 2
         THEN [s EXCEPT !.scanPhases =
                  Tier2Phases(Results(s.scanPhases, s.scanCounts))]
         ELSE s
    ELSE s

\* Faulty variant of EnterTier2: the coarse tier is started over.
EnterTier2Restart(s) ==
    [s EXCEPT !.scanTier = 1, !.scanIndex = 0,
              !.scanCounts = <<>>, !.scanPhases = <<>>]

\* runScanPhase, "Move to second tier": the state it recurses on.
EnterTier2(s) ==
    [s EXCEPT !.scanTier = 2, !.scanIndex = 0,
              !.scanCounts = <<>>, !.scanPhases = <<>>]

\* runScanPhase.
RECURSIVE RunScanPhase(_)
RunScanPhase(s) ==
    IF ~s.scanning THEN s
    ELSE LET s1 == ComputePhases(s)
         IN  IF s1.scanIndex >= Len(s1.scanPhases)
             THEN IF s1.scanTier = 1
                  THEN RunScanPhase(EnterTier2(s1))
                  ELSE CompleteScan(s1)
             ELSE PresentCandidate(s1)

\* The scan timeout callback: scanIndex++; runScanPhase().
ScanTimeoutCallback(s) ==
    RunScanPhase([s EXCEPT !.scanIndex = @ + 1])

\* startExplore.
StartExplore(s) ==
    [StartGraph(s, s.freqSelect) EXCEPT !.explorePlayDisabled = TRUE,
                                        !.exploreStopDisabled = FALSE]

\* startTwoTierScan.
StartTwoTierScan(s) ==
    IF s.scanning THEN s
    ELSE LET s1 == StartExplore(s)
             s2 == [s1 EXCEPT !.scanning = TRUE, !.scanTier = 1,
                              !.scanIndex = 0, !.scanCounts = <<>>,
                              !.scanPhases = <<>>]
             s3 == [StopAutosweep(s2) EXCEPT !.sweepToggleDisabled = TRUE,
                                             !.phaseRangeDisabled = TRUE]
         IN  RunScanPhase(s3)

\* Faulty variant of ClearTimeout: the pending timer is left in place.
ClearTimeoutLeavesPending(pending, id) == pending

\* clearTimeout(id).
ClearTimeout(pending, id) == {t \in pending : t.id # id}

\* Faulty variant of AbortScan: the table is put back to what it was when
\* the scan started.
AbortScanDiscardingMarks(s) ==
    IF s.scanning
    THEN [s EXCEPT !.scanning = FALSE,
                   !.timers = ClearTimeout(s.timers, s.scanTimeoutId),
                   !.scanTier = 0, !.scanPhases = <<>>, !.scanCounts = <<>>,
                   !.scanIndex = 0,
                   !.phaseRangeDisabled = FALSE,
                   !.sweepToggleDisabled = FALSE,
                   !.bestPhaseByBand = s.preScan,
                   !.stored = s.preScan]
    ELSE s

\* stopExplore, "If a guided scan is running, abort it".
AbortScan(s) ==
    IF s.scanning
    THEN [s EXCEPT !.scanning = FALSE,
                   !.timers = ClearTimeout(s.timers, s.scanTimeoutId),
                   !.scanTier = 0, !.scanPhases = <<>>, !.scanCounts = <<>>,
                   !.scanIndex = 0,
                   !.phaseRangeDisabled = FALSE,
                   !.sweepToggleDisabled = FALSE]
    ELSE s

\* stopExplore.
StopExplore(s) ==
    [AbortScan(StopAutosweep(StopCurrentAudio(s)))
        EXCEPT !.explorePlayDisabled = FALSE, !.exploreStopDisabled = TRUE]

\* Faulty variant of ClearMedTimer: the id is forgotten, the timeout is not
\* cancelled.
ClearMedTimerKeepsTick(s) == [s EXCEPT !.medTimerId = 0]

\* clearMedTimer.
ClearMedTimer(s) ==
    [s EXCEPT !.medTicks = @ \ {s.medTimerId}, !.medTimerId = 0]

\* stopMeditation, from the stop button and from the expired timer.
StopMeditation(s) ==
    [ClearMedTimer(StopAutosweep(StopCurrentAudio(s)))
        EXCEPT !.medPlayDisabled = FALSE, !.medStopDisabled = TRUE]

\* tick, the closure of startMedTimer: the session is stopped when no time
\* remains, otherwise the next tick is scheduled by setTimeout(tick, 1000),
\* which returns an id other than the last one.
Tick(s) ==
    LET id == (s.medTimerId % 2) + 1
    IN  IF s.medRemaining <= 0 THEN StopMeditation(s)
        ELSE [s EXCEPT !.medTimerId = id, !.medTicks = @ \cup {id}]

\* startMedTimer for a session of secs seconds: the end time is set and
\* tick runs once at once.
StartMedTimer(s, secs) ==
    IF secs <= 0 THEN s ELSE Tick([s EXCEPT !.medRemaining = secs])

\* startMeditation with a session length of secs seconds.
StartMeditation(s, secs) ==
    LET RecallPhase(s1) ==
            IF s1.medFreqSelect \in DOMAIN s1.bestPhaseByBand
            THEN [s1 EXCEPT !.phaseRange =
                     ToFixed0(s1.bestPhaseByBand[s1.medFreqSelect].phase)]
            ELSE s1
        s2 == RecallPhase(StartGraph(s, s.medFreqSelect))
    IN  StartMedTimer([s2 EXCEPT !.medPlayDisabled = TRUE,
                                 !.medStopDisabled = FALSE], secs)

\* ------------------------------------------------------ control handlers
\* updateChordLoopUI: the selection is reset, then becomes the selector's
\* first option when the manifest has loops for the instrument.
UpdateChordLoopUI(s) ==
    [s EXCEPT !.selectedChordLoop =
        IF s.chordManifest /\ s.chordInstrument # "none" THEN "loopA" ELSE ""]

\* "restart the graph if audio is playing": if (baseOsc) startGraph(getCurrentBandHz()).
RestartIfRunning(s) ==
    IF s.baseOsc # 0 THEN StartGraph(s, s.freqSelect) ELSE s

\* updateCarrierLabel, the carrierRange input listener: the live carrier
\* oscillator is retuned to the slider, then the graph is restarted.
UpdateCarrierLabel(s, hz) ==
    LET s1 == [s EXCEPT !.carrierRange = hz]
    IN  IF s1.baseOsc # 0
        THEN StartGraph([s1 EXCEPT !.tone.baseFreq = ToFloat32(FromInt(hz))],
                        s1.freqSelect)
        ELSE s1

\* irSelect change listener.
IrSelectChanged(s, name) ==
    RestartIfRunning([s EXCEPT !.selectedIR = name])

\* Mode pill click listener.
ModePillClicked(s, mode) ==
    RestartIfRunning([s EXCEPT !.stimulationMode = mode])

\* chordSelect change listener.
ChordSelectChanged(s, instrument) ==
    RestartIfRunning(UpdateChordLoopUI([s EXCEPT !.chordInstrument = instrument]))

\* chordLoopSelect change listener.
ChordLoopSelectChanged(s, file) ==
    RestartIfRunning([s EXCEPT !.selectedChordLoop = file])

\* freqSelect change listener: labels only.
FreqSelectChanged(s, band) == [s EXCEPT !.freqSelect = band]

\* medFreqSelect change listener: labels only.
MedFreqSelectChanged(s, band) == [s EXCEPT !.medFreqSelect = band]

\* ------------------------------------------------------ initial state
\* The carrier slider's initial value and the values it is moved to.
DefaultCarrier == 230

CarrierValues == {220, 230}

\* Outcomes of Math.random(), a number in [0, 1).
RandomValues == {Rat(0, 1), Rat(1, 2), Rat(5, 6)}

\* localStorage contents found at startup.
InitTables ==
    { [b \in {} |-> 0],
      [b \in {783} |-> [phase |-> FromInt(90), count |-> 1]] }

Modes == {"am", "binaural", "ambient", "spatial"}
Instruments == {"none", "piano"}
LoopFiles == {"loopA", "loopB"}

\* The state after the script has run, for a given environment.
InitWith(table, manifest, media, birds, waves) ==
    /\ freqSelect = 783 /\ medFreqSelect = 783
    /\ phaseRange = 0
    /\ phaseRangeDisabled = FALSE /\ sweepToggleDisabled = FALSE
    /\ explorePlayDisabled = FALSE /\ exploreStopDisabled = FALSE
    /\ medPlayDisabled = FALSE /\ medStopDisabled = FALSE
    /\ stimulationMode = "am" /\ chordInstrument = "none"
    /\ selectedChordLoop = "" /\ selectedIR = "none"
    /\ birdsVal = birds /\ wavesVal = waves
    /\ carrierRange = DefaultCarrier /\ mathRandom = Rat(1, 2)
    /\ tone = NoTone /\ ambienceTaps = {}
    /\ medTimerId = 0 /\ medRemaining = 0 /\ medTicks = {}
    /\ chordManifest = manifest
    /\ birdsSampleBuffer = FALSE /\ wavesSampleBuffer = FALSE
    /\ mediaOk = media
    /\ gen = 0 /\ masterGain = 0 /\ baseOsc = 0 /\ oceanSource = 0
    /\ rainSource = 0 /\ wavesSource = 0 /\ birdsSource = 0
    /\ birdsStreamEl = 0 /\ wavesStreamEl = 0
    /\ birdsIsSample = FALSE /\ wavesIsSample = FALSE
    /\ motionLfo = 0 /\ extraNodes = {} /\ motionPanners = {}
    /\ chordOscs = {} /\ chordTimer = 0 /\ birdsPatternTimer = 0
    /\ wavesPatternTimer = 0 /\ chordBufferSource = 0
    /\ graphFreqHz = 0 /\ started = {} /\ pendingChordLoads = {}
    /\ irNodes = <<>> /\ pendingIRLoads = {} /\ irBuffers = {}
    /\ sweepIsRunning = FALSE
    /\ scanning = FALSE /\ scanTier = 0 /\ scanPhases = <<>>
    /\ scanCounts = <<>> /\ scanIndex = 0 /\ scanTimeoutId = 0
    /\ timers = {}
    /\ bestPhaseByBand = table /\ stored = table
    /\ lastOp = "init" /\ preScan = table /\ scanTouched = FALSE

\* No block has been applied on drawn inputs.
NoCall == [op |-> "none"]

Init ==
    /\ \E table \in InitTables : InitWith(table, FALSE, TRUE, 0, 0)
    /\ callArgs = NoCall /\ callRet = NoCall

\* ------------------------------------------------------ actions
\* A handler's result with the history variables set.
Done(s, op) == Apply([s EXCEPT !.lastOp = op])

\* Builds are counted; a handler that would build is explored while the
\* count is below MaxBuilds.
CanBuild == gen < MaxBuilds

\* explorePlay click: startTwoTierScan.
ExplorePlayClick ==
    /\ ~explorePlayDisabled
    /\ CanBuild
    /\ LET r == StartTwoTierScan(St)
       IN  IF scanning THEN Done(r, "startTwoTierScan")
           ELSE Done([r EXCEPT !.preScan = bestPhaseByBand,
                               !.scanTouched = FALSE], "startTwoTierScan")

\* exploreStop click: stopExplore.
ExploreStopClick ==
    /\ ~exploreStopDisabled
    /\ Done(StopExplore(St), IF scanning THEN "abortScan" ELSE "stopExplore")

\* A pending scan timeout fires.
ScanTimeout ==
    \E t \in timers :
        LET r == ScanTimeoutCallback([St EXCEPT !.timers = @ \ {t}])
        IN  Done(r, IF scanning /\ ~r.scanning THEN "scanComplete"
                    ELSE "scanTimeout")

\* The marks held by the whole table.
RECURSIVE SumCounts(_, _)
SumCounts(table, keys) ==
    IF keys = {} THEN 0
    ELSE LET k == CHOOSE x \in keys : TRUE
         IN  table[k].count + SumCounts(table, keys \ {k})

TotalCount(table) == SumCounts(table, DOMAIN table)

\* markStrongest click: handleMarkStrongest.
MarkStrongestClick ==
    /\ TotalCount(bestPhaseByBand) < MaxCount
    /\ scanning => CountAt(scanCounts, scanIndex) < MaxScanMarks
    /\ Done([HandleMarkStrongest(St) EXCEPT
                !.scanTouched = scanTouched \/ scanning], "mark")

\* freqSelect change.
FreqSelectChange ==
    \E b \in Bands \ {freqSelect} :
        Done(FreqSelectChanged(St, b), "freqSelectChange")

\* medFreqSelect change.
MedFreqSelectChange ==
    \E b \in Bands \ {medFreqSelect} :
        Done(MedFreqSelectChanged(St, b), "medFreqSelectChange")

\* medPlay click: startMeditation.
MedPlayClick ==
    /\ ~medPlayDisabled
    /\ CanBuild
    /\ \E secs \in 1..MaxSession :
          Done(StartMeditation(St, secs), "startMeditation")

\* medStop click: stopMeditation(false).
MedStopClick ==
    /\ ~medStopDisabled
    /\ Done(StopMeditation(St), "stopMeditation")

\* A pending tick timeout fires, elapsed seconds after the previous look at
\* the clock (a timeout fires at or after its delay of 1000 ms).
MedTimerTick ==
    \E id \in medTicks : \E elapsed \in 1..2 :
        Done(Tick([St EXCEPT !.medTicks = @ \ {id},
                             !.medRemaining = @ - elapsed]),
             IF medRemaining - elapsed <= 0 THEN "medTimerExpired"
             ELSE "medTimerTick")

\* A mode pill other than the active one is clicked.
ModePillClick ==
    \E m \in Modes \ {stimulationMode} :
        /\ baseOsc # 0 => CanBuild
        /\ Done(ModePillClicked(St, m), "modePill")

\* chordSelect change.
ChordSelectChange ==
    \E c \in Instruments \ {chordInstrument} :
        /\ baseOsc # 0 => CanBuild
        /\ Done(ChordSelectChanged(St, c), "chordSelect")

\* chordLoopSelect change (the selector is shown when loops exist).
ChordLoopSelectChange ==
    \E f \in LoopFiles \ {selectedChordLoop} :
        /\ chordManifest /\ chordInstrument # "none"
        /\ baseOsc # 0 => CanBuild
        /\ Done(ChordLoopSelectChanged(St, f), "chordLoopSelect")

\* ensureChordBuffer settles and startChordLoop resumes after its await.
ChordBufferLoaded ==
    \E req \in pendingChordLoads : \E ok \in BOOLEAN :
        Done(ChordLoopResume(St, req, ok), "chordBufferLoaded")

\* loadBirdsSample / loadWavesSample resolve with a decoded buffer.
BirdsSampleLoaded ==
    /\ ~birdsSampleBuffer
    /\ Done([St EXCEPT !.birdsSampleBuffer = TRUE], "birdsSampleLoaded")

WavesSampleLoaded ==
    /\ ~wavesSampleBuffer
    /\ Done([St EXCEPT !.wavesSampleBuffer = TRUE], "wavesSampleLoaded")

\* ------------------------------------------------------ specifications
\* The guided scan, marking and band selection.
Next ==
    \/ ExplorePlayClick
    \/ ExploreStopClick
    \/ ScanTimeout
    \/ MarkStrongestClick
    \/ FreqSelectChange

Spec == Init /\ [][Next]_vars

\* The audio graph under every configuration change and asset completion.
GraphInit ==
    /\ \E manifest \in BOOLEAN : \E media \in BOOLEAN : \E level \in {0, 1} :
          InitWith([b \in {} |-> 0], manifest, media, level, level)
    /\ callArgs = NoCall /\ callRet = NoCall

GraphNext ==
    \/ ExplorePlayClick
    \/ ExploreStopClick
    \/ FreqSelectChange
    \/ ModePillClick
    \/ ChordSelectChange
    \/ ChordLoopSelectChange
    \/ ChordBufferLoaded
    \/ BirdsSampleLoaded
    \/ WavesSampleLoaded

GraphSpec == GraphInit /\ [][GraphNext]_vars

\* The two result blocks of runScanPhase applied to drawn mark counts: the
\* fine-tier block on the coarse list with its counters, then the
\* completion branch on the fine list it produced with drawn counters.
CountVectors == [0..(CandidateCount - 1) -> 0..MaxScanMarks]

PureInit ==
    /\ InitWith([b \in {} |-> 0], FALSE, TRUE, 0, 0)
    /\ callArgs \in {[op |-> "tier1Counts", phases |-> Tier1Phases,
                       counts |-> c] : c \in CountVectors}
    /\ callRet = NoCall

\* runScanPhase lines 2115-2135 on (scanPhases, scanCounts) = callArgs,
\* with the dwell and fade of lines 2101-2102 for the fine tier.
ComputeTier2 ==
    /\ callArgs.op = "tier1Counts" /\ callRet.op = "none"
    /\ LET e == Tier2Endpoints(Results(callArgs.phases, callArgs.counts))
       IN  Apply([St EXCEPT
                    !.callArgs = [op |-> "endpoints", low |-> e[1],
                                  high |-> e[2]],
                    !.callRet = [op |-> "tier2",
                                 phases |-> Tier2Sweep(e[1], e[2]),
                                 dwell |-> Dwell(2), fade |-> Fade(2)]])

\* runScanPhase entered after the last fine candidate, with the fine list
\* of the previous step and drawn counters.
CompleteTier2 ==
    /\ callRet.op = "tier2"
    /\ \E c \in CountVectors :
          LET r == RunScanPhase([St EXCEPT !.scanning = TRUE, !.scanTier = 2,
                                          !.scanPhases = callRet.phases,
                                          !.scanCounts = c,
                                          !.scanIndex = Len(callRet.phases)])
          IN  Apply([St EXCEPT
                       !.callArgs = [op |-> "tier2Counts",
                                     phases |-> callRet.phases, counts |-> c],
                       !.callRet = [op |-> "completed",
                                    phaseRange |-> r.phaseRange,
                                    scanning |-> r.scanning,
                                    scanTier |-> r.scanTier,
                                    scanPhases |-> r.scanPhases,
                                    scanCounts |-> r.scanCounts,
                                    scanIndex |-> r.scanIndex,
                                    record |-> r.bestPhaseByBand,
                                    stored |-> r.stored]])

PureNext ==
    \/ ComputeTier2
    \/ CompleteTier2

PureSpec == PureInit /\ [][PureNext]_vars

\* ------------------------------------------------------ history
\* clearBestPhase click: the record of the selected explore band.
ClearBestPhaseClick ==
    Done(ClearBestPhaseForBand(St, freqSelect), "clearBestPhase")

\* clearHistory click, the dialog confirmed or cancelled.
ClearHistoryClick ==
    \E confirmed \in BOOLEAN :
        Done(HandleClearHistory(St, confirmed),
             IF confirmed THEN "clearHistory" ELSE "clearHistoryCancelled")

\* The best-phase table under marks, guided scans and the two clear buttons.
HistoryNext ==
    \/ ExplorePlayClick
    \/ ScanTimeout
    \/ MarkStrongestClick
    \/ FreqSelectChange
    \/ ClearBestPhaseClick
    \/ ClearHistoryClick

HistorySpec == Init /\ [][HistoryNext]_vars

\* ------------------------------------------------------ meditation session
\* Meditation sessions next to the Explore scan.
MedNext ==
    \/ MedPlayClick
    \/ MedStopClick
    \/ MedTimerTick
    \/ ExplorePlayClick
    \/ ExploreStopClick

\* The event loop runs a pending timeout: while a tick is pending, a step
\* that moves the remaining time happens eventually.
MedTickFires ==
    /\ medTicks # {}
    /\ medRemaining' \in (0 - 2)..MaxSession

MedLiveSpec == Init /\ [][MedNext]_vars /\ WF_medRemaining(MedTickFires)

\* ------------------------------------------------------ tone section
\* carrierRange input.
CarrierInput ==
    \E hz \in CarrierValues \ {carrierRange} :
        /\ baseOsc # 0 => CanBuild
        /\ Done(UpdateCarrierLabel(St, hz), "updateCarrierLabel")

\* The generator behind Math.random() moves on: the next draw is any value.
MathRandomAdvances ==
    \E r \in RandomValues \ {mathRandom} :
        Done([St EXCEPT !.mathRandom = r], "mathRandom")

ToneNext ==
    \/ ExplorePlayClick
    \/ ExploreStopClick
    \/ FreqSelectChange
    \/ ModePillClick
    \/ CarrierInput
    \/ MathRandomAdvances

ToneSpec == Init /\ [][ToneNext]_vars

\* A meditation session whose mode and carrier are changed while it plays,
\* with either band selector moved.
SessionNext ==
    \/ MedPlayClick
    \/ MedStopClick
    \/ MedFreqSelectChange
    \/ FreqSelectChange
    \/ ModePillClick
    \/ CarrierInput

SessionSpec == Init /\ [][SessionNext]_vars

\* ------------------------------------------------------ reverb branch
\* Builds and teardowns with a reverb space selected, impulse responses
\* that load late, fail to load, or are cached.
ReverbSpaces == {"none", "forest", "temple"}

ReverbInit ==
    /\ InitWith([b \in {} |-> 0], FALSE, TRUE, 0, 0)
    /\ callArgs = NoCall /\ callRet = NoCall

\* irSelect change.
IrSelectChange ==
    /\ baseOsc = 0 \/ CanBuild
    /\ \E name \in ReverbSpaces \ {selectedIR} :
          Done(IrSelectChanged(St, name), "irSelectChange")

\* A loadIRBuffer promise settles, with a buffer or with null.
IRLoadSettled ==
    \E l \in pendingIRLoads : \E ok \in BOOLEAN :
        Done(IRLoadResume(St, l, ok),
             IF ok THEN "irLoadResolved" ELSE "irLoadFailed")

ReverbNext ==
    \/ ExplorePlayClick
    \/ ExploreStopClick
    \/ IrSelectChange
    \/ IRLoadSettled

ReverbSpec == ReverbInit /\ [][ReverbNext]_vars

\* ------------------------------------------------------ numeric blocks
\* getCompensatedIrWetGain and the binaural branch of startGraph applied to
\* drawn inputs.  Levels are in hundredths; 12 is the target level.
RmsHundredths == {0, 1, 4, 8, 12, 24, 100, 168, 240, 300}

IrLevels == {Rat(h, 100) : h \in RmsHundredths} \cup {NonFinite}

IrBufferInputs ==
    {NullBuffer} \cup
    { [present |-> TRUE, channels |-> c, length |-> n, level |-> l] :
          c \in {0, 2}, n \in {0, 1}, l \in IrLevels }

IrNames == {"temple", "forest"}

NumericInit ==
    /\ InitWith([b \in {} |-> 0], FALSE, TRUE, 0, 0)
    /\ callArgs \in
          { [op |-> "wetGain", name |-> nm, buffer |-> buf] :
                nm \in IrNames, buf \in IrBufferInputs }
          \cup { [op |-> "binaural", freqHz |-> Rat(b, 100)] : b \in Bands }
    /\ callRet = NoCall

\* getCompensatedIrWetGain(name, buffer) is called.
ComputeWetGain ==
    /\ callArgs.op = "wetGain" /\ callRet = NoCall
    /\ Done([St EXCEPT !.callRet =
                [op |-> "wetGain",
                 value |-> GetCompensatedIrWetGain(callArgs.name,
                                                   callArgs.buffer)]],
            "wetGain")

\* The binaural branch of startGraph runs for freqHz.
ComputeBinaural ==
    /\ callArgs.op = "binaural" /\ callRet = NoCall
    /\ Done([St EXCEPT !.callRet =
                [op |-> "binaural", build |-> BinauralBuild(callArgs.freqHz)]],
            "binaural")

NumericNext ==
    \/ ComputeWetGain
    \/ ComputeBinaural

NumericSpec == NumericInit /\ [][NumericNext]_vars

\* ------------------------------------------------------ chord catalog
\* A catalog entry is [idx, name, file, keys, bpm]: idx is the entry's place
\* in the manifest array, name its rank in localeCompare order, file a pair
\* <<prefix, id>>, keys the keywords that `${name} ${file}` includes, and bpm
\* the tempo matched in that text (0 when there is none).

\* Faulty variant of ScoreChordLoop: the weights of favorite and meditation
\* keywords are exchanged.
ScoreChordLoopSwapped(loop, prefs) ==
    LET basePos == {"minor", "min", "m_", "sus", "maj7", "add9", "pad",
                    "drone", "soft", "warm"}
        baseNeg == {"drum", "perc", "stacc", "pluck", "arp", "lead"}
        Hits(list) == Cardinality({i \in DOMAIN list : list[i] \in loop.keys})
        tempo == IF loop.bpm = 0 THEN 0
                 ELSE (IF loop.bpm >= prefs.bpmRange[1]
                          /\ loop.bpm <= prefs.bpmRange[2] THEN 12 ELSE 0)
                      - (IF loop.bpm > 155 THEN 8 ELSE 0)
    IN  tempo + 6 * Cardinality(basePos \cap loop.keys)
              - 8 * Cardinality(baseNeg \cap loop.keys)
              + 14 * Hits(prefs.favoriteKeywords)
              + 45 * Hits(prefs.meditationKeywords)
              - 18 * Hits(prefs.avoidKeywords)

\* scoreChordLoop.
ScoreChordLoop(loop, prefs) ==
    LET basePos == {"minor", "min", "m_", "sus", "maj7", "add9", "pad",
                    "drone", "soft", "warm"}
        baseNeg == {"drum", "perc", "stacc", "pluck", "arp", "lead"}
        Hits(list) == Cardinality({i \in DOMAIN list : list[i] \in loop.keys})
        tempo == IF loop.bpm = 0 THEN 0
                 ELSE (IF loop.bpm >= prefs.bpmRange[1]
                          /\ loop.bpm <= prefs.bpmRange[2] THEN 12 ELSE 0)
                      - (IF loop.bpm > 155 THEN 8 ELSE 0)
    IN  tempo + 6 * Cardinality(basePos \cap loop.keys)
              - 8 * Cardinality(baseNeg \cap loop.keys)
              + 45 * Hits(prefs.favoriteKeywords)
              + 14 * Hits(prefs.meditationKeywords)
              - 18 * Hits(prefs.avoidKeywords)

\* sortChordLoops: Array.prototype.sort is stable; the comparator orders by
\* score, highest first, then by name.
SortChordLoops(loops, prefs) ==
    LET withScore == [i \in DOMAIN loops |->
                         [loop |-> loops[i],
                          score |-> ScoreChordLoop(loops[i], prefs)]]
        Before(a, b) == \/ a.score > b.score
                        \/ a.score = b.score /\ a.loop.name < b.loop.name
        RECURSIVE Insert(_, _), Sort(_)
        Insert(sorted, x) ==
            IF sorted = <<>> THEN <<x>>
            ELSE IF Before(x, Head(sorted)) THEN <<x>> \o sorted
            ELSE <<Head(sorted)>> \o Insert(Tail(sorted), x)
        Sort(k) == IF k = 0 THEN <<>> ELSE Insert(Sort(k - 1), withScore[k])
    IN  Sort(Len(loops))

\* getLoopCategory.
GetLoopCategory(entry) ==
    CASE entry.file[1] = "user_reference__" -> "Reference / Favorites"
      [] entry.file[1] = "mammoth_synth_chords__" -> "Mammoth Synth Chords"
      [] entry.file[1] = "schumann_app_audio_samples__" ->
             "Schumann App Audio Samples"
      [] entry.file[1] = "ck2_" -> "Cool Keys"
      [] OTHER -> "Other"

\* updateChordLoopUI for a non-empty catalog: the option groups appended to
\* chordLoopSelect, in order.  An option is [value, topPick, entry].
PopulateSelector(loops, prefs) ==
    LET rankedLoops == SortChordLoops(loops, prefs)
        n == IF Len(rankedLoops) < 8 THEN Len(rankedLoops) ELSE 8
        topRecommended == SubSeq(rankedLoops, 1, n)
        topSet == {topRecommended[i].loop.file : i \in 1..n}
        groupOrder == <<"Reference / Favorites", "Mammoth Synth Chords",
                        "Schumann App Audio Samples", "Cool Keys", "Other">>
        Option(r) == [value |-> r.loop.file, topPick |-> FALSE,
                      entry |-> r.loop.idx]
        OptionsOf(rs) == [i \in DOMAIN rs |-> Option(rs[i])]
        InGroup(c, r) == r.loop.file \notin topSet /\ GetLoopCategory(r.loop) = c
        groups == [k \in DOMAIN groupOrder |->
                      [label |-> groupOrder[k],
                       options |-> OptionsOf(SelectSeq(rankedLoops,
                                      LAMBDA r : InGroup(groupOrder[k], r)))]]
        NonEmpty(g) == g.options # <<>>
    IN  << [label |-> "Recommended",
            options |-> [i \in 1..n |->
                            [Option(topRecommended[i]) EXCEPT !.topPick = (i = 1)]]] >>
        \o SelectSeq(groups, NonEmpty)

\* updateChordLoopUI when the instrument has no loops.  manifest is "null"
\* (manifest.json not loaded), "missing" (no key for the instrument) or
\* "empty" (the key holds an empty array).
EmptyLoopRow(manifest, instrument) ==
    IF manifest # "null" /\ instrument = "guitar"
    THEN [hidden |-> FALSE, disabled |-> TRUE,
          text |-> "No guitar loops installed (using synth fallback)",
          selectedChordLoop |-> ""]
    ELSE [hidden |-> TRUE, disabled |-> FALSE, text |-> "",
          selectedChordLoop |-> ""]

\* Faulty variant of SynthProgression: every instrument plays sine waves.
SynthProgressionAllSine(instrument) ==
    [layer |-> "synth", waveform |-> "sine", chords |-> 3, intervalMs |-> 30000]

\* startChordProgression, the synthesised progression: waveform by
\* instrument, three chords, one every 30 s.
SynthProgression(instrument) ==
    [layer |-> "synth",
     waveform |-> CASE instrument = "piano" -> "sine"
                    [] instrument = "harp" -> "triangle"
                    [] instrument = "synth" -> "sawtooth"
                    [] instrument = "guitar" -> "square"
                    [] OTHER -> "sine",
     chords |-> 3, intervalMs |-> 30000]

\* startChordProgression: which chord layer a build gets.
ChordLayer(manifest, instrument, selected) ==
    IF instrument = "none" THEN [layer |-> "none"]
    ELSE IF manifest \notin {"null", "missing"} /\ selected # ""
    THEN [layer |-> "loop"]
    ELSE SynthProgression(instrument)

\* preferences.json as documented above loadChordPreferences, and none.
ChordPreferences ==
    { [bpmRange |-> <<110, 140>>, favoriteKeywords |-> <<"cm">>,
       meditationKeywords |-> <<"calm">>, avoidKeywords |-> <<"perc">>],
      [bpmRange |-> <<110, 140>>, favoriteKeywords |-> <<>>,
       meditationKeywords |-> <<>>, avoidKeywords |-> <<>>] }

\* The catalogs sortChordLoops and updateChordLoopUI are applied to: every
\* pair of entries of every make, and catalogs of 7..MaxLarge entries over
\* the five file prefixes, in which entry d (if any) has the same file as
\* entry 1 and k shifts which entries match the favorite and the meditation
\* keyword.
MaxLarge == 10

Catalogs ==
    LET filePrefixes == <<"user_reference__", "mammoth_synth_chords__",
                          "schumann_app_audio_samples__", "ck2_", "">>
        Small(i) == { [idx |-> i, name |-> nm, file |-> <<"", i>>,
                       keys |-> ks, bpm |-> t] :
                         nm \in 1..2, ks \in SUBSET {"cm", "calm", "soft"},
                         t \in {0, 120} }
        Large(i, d, k) ==
            [idx |-> i, name |-> i,
             file |-> IF i = d THEN <<filePrefixes[1], 1>>
                      ELSE <<filePrefixes[((i - 1) % 5) + 1], i>>,
             keys |-> IF (i + k) % 3 = 0 THEN {"cm"}
                      ELSE IF (i + k) % 3 = 1 THEN {"calm"} ELSE {},
             bpm |-> 0]
    IN  { <<a, b>> : a \in Small(1), b \in Small(2) }
        \cup { [i \in 1..n |-> Large(i, d, k)] :
                   n \in 7..MaxLarge, d \in 0..MaxLarge, k \in 0..2 }

CatalogInit ==
    /\ InitWith([b \in {} |-> 0], TRUE, TRUE, 0, 0)
    /\ callArgs \in { [op |-> "catalog", loops |-> l, prefs |-> p] :
                         l \in Catalogs,
                         p \in ChordPreferences }
                   \cup { [op |-> "noLoops", manifest |-> m, instrument |-> c] :
                            m \in {"null", "missing", "empty"},
                            c \in {"piano", "harp", "synth", "guitar"} }
    /\ callRet = NoCall

\* sortChordLoops(loops) is called.
RankCatalog ==
    /\ callArgs.op = "catalog" /\ callRet = NoCall
    /\ Done([St EXCEPT !.callRet =
                [op |-> "sortChordLoops",
                 ranked |-> SortChordLoops(callArgs.loops, callArgs.prefs)]],
            "sortChordLoops")

\* updateChordLoopUI fills the selector from the catalog.
FillSelector ==
    /\ callArgs.op = "catalog" /\ callRet.op \in {"none", "sortChordLoops"}
    /\ Done([St EXCEPT !.callRet =
                [op |-> "updateChordLoopUI",
                 groups |-> PopulateSelector(callArgs.loops, callArgs.prefs)]],
            "updateChordLoopUI")

\* chordSelect changes to an instrument without loops: updateChordLoopUI.
ShowEmptyLoopRow ==
    /\ callArgs.op = "noLoops" /\ callRet = NoCall
    /\ Done([St EXCEPT !.callRet =
                [op |-> "updateChordLoopUI",
                 row |-> EmptyLoopRow(callArgs.manifest, callArgs.instrument)]],
            "updateChordLoopUI")

\* A build follows: startChordProgression with the selection left by
\* updateChordLoopUI.
BuildChordLayer ==
    /\ callArgs.op = "noLoops" /\ callRet.op = "updateChordLoopUI"
    /\ Done([St EXCEPT !.callRet =
                [op |-> "startChordProgression", row |-> callRet.row,
                 chord |-> ChordLayer(callArgs.manifest, callArgs.instrument,
                                      callRet.row.selectedChordLoop)]],
            "startChordProgression")

CatalogNext ==
    \/ RankCatalog
    \/ FillSelector
    \/ ShowEmptyLoopRow
    \/ BuildChordLayer

CatalogSpec == CatalogInit /\ [][CatalogNext]_vars

\* ------------------------------------------------------ asset resolver
\* File names a server may list or serve, with what pickBestMatch tests of
\* each: its extension and which of the substrings looked for its
\* lower-cased name contains (a keyword, '48k', '24').
AssetFiles ==
    [name : {"forest.wav"}, ext : {"wav"}, has : {{"forest"}}]
    \cup [name : {"temple.wav"}, ext : {"wav"}, has : {{"temple"}}]
    \cup [name : {"forest_48k_24.mp3"}, ext : {"mp3"},
          has : {{"forest", "48k", "24"}}]
    \cup [name : {"rain.wav"}, ext : {"wav"}, has : {{"rain"}}]
    \cup [name : {"ocean.mp3"}, ext : {"mp3"}, has : {{"ocean"}}]
    \cup [name : {"index.html"}, ext : {"html"}, has : {{}}]

\* candidateNames of loadIRBuffer and of resolveSoundscapeBuffer, and the
\* keyword each logical name is discovered by (keywordMap[name][0]; the
\* kind itself for a soundscape).
CandidateNames(name) ==
    CASE name = "forest" ->
             <<"forest.wav", "Forest.wav", "forest-ir.wav", "forest_ir.wav">>
      [] name = "temple" ->
             <<"temple.wav", "Temple.wav", "temple-ir.wav", "york-minster.wav",
               "minster.wav">>
      [] name = "ocean" ->
             <<"ocean.wav", "ocean.mp3", "Ocean.wav", "Ocean.mp3",
               "ocean-wave-1.wav", "ocean_wave.wav", "ocean-waves.wav",
               "oceanwaves.wav">>
      [] name = "rain" ->
             <<"rain.wav", "rain.mp3", "Rain.wav", "Rain.mp3", "rain-1.wav",
               "rain_loop.wav", "rainloop.wav">>
      [] name = "birds" ->
             <<"birds.wav", "birds.mp3", "Birds.wav", "Birds.mp3", "bird.wav",
               "birdsong.wav", "bird-song.wav", "birds_loop.wav",
               "birdsloop.wav">>
      [] OTHER ->
             <<"waves.wav", "waves.mp3", "Waves.wav", "Waves.mp3", "wave.wav",
               "wave_loop.wav", "waveloop.wav">>

\* pickBestMatch(files, keyword): the audio files of the listing scored and
\* sorted by descending score (a stable sort), the first one returned; null
\* when the listing holds no audio file.
PickBestMatch(files, keyword) ==
    LET audioFiles == SelectSeq(files, LAMBDA f : f.ext \in {"wav", "mp3", "ogg"})
        Score(f) == (IF keyword \in f.has THEN 100 ELSE 0)
                    + (IF f.ext = "wav" THEN 10 ELSE 0)
                    + (IF "48k" \in f.has THEN 2 ELSE 0)
                    + (IF "24" \in f.has THEN 1 ELSE 0)
        first == CHOOSE i \in DOMAIN audioFiles :
                     \A j \in DOMAIN audioFiles :
                         \/ Score(audioFiles[j]) < Score(audioFiles[i])
                         \/ Score(audioFiles[j]) = Score(audioFiles[i]) /\ i <= j
    IN  IF Len(audioFiles) = 0 THEN "null" ELSE audioFiles[first].name

\* The fetch-and-decode loop of loadIRBuffer and of
\* fetchFirstDecodedAudioBuffer: the first url that is served and decodes,
\* null when none does.
FetchFirstDecoded(urls, decodable) ==
    LET ok == SelectSeq(urls, LAMBDA u : u \in decodable)
    IN  IF Len(ok) = 0 THEN "null" ELSE ok[1]

\* loadIRBuffer(name) with nothing cached and resolveSoundscapeBuffer(kind):
\* the discovered file, when there is one, is tried before the candidates.
ResolveAsset(name, files, decodable) ==
    LET urls == CandidateNames(name)
        discovered == PickBestMatch(files, name)
    IN  FetchFirstDecoded(IF discovered # "null" THEN <<discovered>> \o urls
                          ELSE urls, decodable)

\* The inputs of a resolution: the logical name, what listFilesInDir returns
\* (nothing, one name, two names) and the files the server serves as
\* decodable audio.
ResolveInit ==
    LET Listings ==
            {<<>>} \cup {<<f>> : f \in AssetFiles}
                   \cup {l \in AssetFiles \X AssetFiles : l[1] # l[2]}
        Audio == {f.name : f \in {g \in AssetFiles : g.ext # "html"}}
        DecodableSets == {d \in SUBSET Audio : Cardinality(d) <= 2}
    IN  /\ InitWith([b \in {} |-> 0], FALSE, TRUE, 0, 0)
        /\ callArgs \in { [op |-> "resolve", name |-> n, files |-> l,
                           decodable |-> d] :
                             n \in {"forest", "temple", "ocean", "rain",
                                    "birds", "waves"},
                             l \in Listings, d \in DecodableSets }
        /\ callRet = NoCall

\* loadIRBuffer is called for a reverb space.
LoadIRBuffer ==
    /\ callArgs.op = "resolve" /\ callRet = NoCall
    /\ callArgs.name \in {"forest", "temple"}
    /\ Done([St EXCEPT !.callRet =
                [op |-> "resolved",
                 file |-> ResolveAsset(callArgs.name, callArgs.files,
                                       callArgs.decodable)]],
            "loadIRBuffer")

\* resolveSoundscapeBuffer is called for an ambience layer.
ResolveSoundscapeBuffer ==
    /\ callArgs.op = "resolve" /\ callRet = NoCall
    /\ callArgs.name \in {"ocean", "rain", "birds", "waves"}
    /\ Done([St EXCEPT !.callRet =
                [op |-> "resolved",
                 file |-> ResolveAsset(callArgs.name, callArgs.files,
                                       callArgs.decodable)]],
            "resolveSoundscapeBuffer")

ResolveNext ==
    \/ LoadIRBuffer
    \/ ResolveSoundscapeBuffer

ResolveSpec == ResolveInit /\ [][ResolveNext]_vars

\* Marking at slider positions chosen by hand, during autosweep and at the
\* candidates of a guided scan that runs to completion, on one band, with
\* another band's record already stored.
SliderValues == {10, 20, 30}

MarkInitTables ==
    { [b \in {} |-> 0],
      [b \in {1430} |-> [phase |-> FromInt(90), count |-> 1]] }

MarkInit ==
    /\ \E table \in MarkInitTables : InitWith(table, FALSE, TRUE, 0, 0)
    /\ callArgs = NoCall /\ callRet = NoCall

\* The phase slider is moved by hand (input event: updatePhaseLabel only).
PhaseRangeInput ==
    /\ ~phaseRangeDisabled
    /\ \E v \in SliderValues \ {phaseRange} :
          Done([St EXCEPT !.phaseRange = v], "phaseInput")

\* markStrongest click, explored while the active band's record holds
\* fewer than MaxMarks marks.
MarkStrongestRepeated ==
    /\ freqSelect \in DOMAIN bestPhaseByBand =>
           bestPhaseByBand[freqSelect].count < MaxMarks
    /\ Done([HandleMarkStrongest(St) EXCEPT
                !.scanTouched = scanTouched \/ scanning], "mark")

\* sweepToggle click: toggleAutosweep.
SweepToggleClick ==
    /\ ~sweepToggleDisabled
    /\ Done(ToggleAutosweep(St), "toggleAutosweep")

\* An animation frame of the running autosweep.
SweepFrame ==
    /\ sweepIsRunning
    /\ \E frac \in SweepFractions : Done(SweepStep(St, frac), "sweepFrame")

MarkNext ==
    \/ PhaseRangeInput
    \/ MarkStrongestRepeated
    \/ SweepToggleClick
    \/ SweepFrame
    \/ ExplorePlayClick
    \/ ScanTimeout

MarkSpec == MarkInit /\ [][MarkNext]_vars

\* A guided scan that is never aborted and whose timeouts keep firing: the
\* event loop runs every pending setTimeout callback.
ScanLiveNext ==
    \/ ExplorePlayClick
    \/ ScanTimeout
    \/ MarkStrongestClick
    \/ FreqSelectChange

\* While a timer is pending the scan position changes only when the timer
\* fires, so a fair timer is a scan position that does not stay put forever.
ScanAdvances ==
    /\ timers # {}
    /\ scanTier' \in 0..2
    /\ scanIndex' \in 0..(CandidateCount - 1)

ScanLiveSpec ==
    Init /\ [][ScanLiveNext]_vars /\ WF_<<scanTier, scanIndex>>(ScanAdvances)

\* ------------------------------------------------------ properties
\* Marks received by the candidate at 0-based index i (none counts as 0).
Marks(counts, i) == IF i \in DOMAIN counts THEN counts[i] ELSE 0

\* 0-based index of the most-marked of n candidates outside taken, the
\* earliest one on a tie.
TopIndex(counts, n, taken) ==
    CHOOSE i \in (0..(n - 1)) \ taken :
        \A j \in (0..(n - 1)) \ taken :
            \/ Marks(counts, j) < Marks(counts, i)
            \/ Marks(counts, j) = Marks(counts, i) /\ i <= j

\* The record of a band as a set: empty when the band has none.
RecordOf(table, key) == IF key \in DOMAIN table THEN {table[key]} ELSE {}

\* C1 (as stated): when tier 1 ends, the tier-2 sweep starts at the lower
\* and ends at the higher of the two tier-1 candidates with the most marks
\* (ties by candidate order), whatever the tier-1 mark counts were.
C1_Tier2FromTopTwo ==
    [][ (scanning /\ scanTier = 1 /\ scanning' /\ scanTier' = 2) =>
          LET first == TopIndex(scanCounts, 7, {})
              second == TopIndex(scanCounts, 7, {first})
              a == scanPhases[first + 1]
              b == scanPhases[second + 1]
              low == IF a < b THEN a ELSE b
              high == IF a < b THEN b ELSE a
          IN  /\ Len(scanPhases') = 7
              /\ scanPhases'[1] = low % 360
              /\ scanPhases'[7] = high % 360 ]_vars

\* C2 (as stated): on completion the best phase b is merged into the active
\* band's persisted record by the incremental mean: {p, n} becomes
\* {p + (b - p)/(n + 1), n + 1}.
C2_CompletionMergesByMean ==
    [][ (lastOp' = "scanComplete" /\ freqSelect \in DOMAIN bestPhaseByBand) =>
          LET p == bestPhaseByBand[freqSelect].phase
              n == bestPhaseByBand[freqSelect].count
              b == phaseRange'
              r == stored'[freqSelect]
          IN  /\ r.count = n + 1
              /\ r.phase.num * p.den * (n + 1)
                   = (p.num * (n + 1) + b * p.den - p.num) * r.phase.den ]_vars

\* C2 (amended): on completion the best phase b replaces the phase of the
\* active band's record and the record keeps its count ({p, n} becomes
\* {b, n}; a band without a record gets {b, 1}); the records of the other
\* bands are unchanged and the table is persisted.
C2_CompletionOverwritesPhase ==
    [][ lastOp' = "scanComplete" =>
          LET b == phaseRange'
          IN  /\ DOMAIN bestPhaseByBand' = DOMAIN bestPhaseByBand \cup {freqSelect}
              /\ bestPhaseByBand'[freqSelect].phase = [num |-> b, den |-> 1]
              /\ bestPhaseByBand'[freqSelect].count =
                     IF freqSelect \in DOMAIN bestPhaseByBand
                     THEN bestPhaseByBand[freqSelect].count ELSE 1
              /\ \A k \in DOMAIN bestPhaseByBand \ {freqSelect} :
                     bestPhaseByBand'[k] = bestPhaseByBand[k]
              /\ stored' = bestPhaseByBand' ]_vars

\* C2 witness: a scan has completed on a band whose record was {90, 1}
\* and is now {0, 1}.
C2_Witness ==
    /\ lastOp = "scanComplete"
    /\ RecordOf(preScan, freqSelect) = {[phase |-> [num |-> 90, den |-> 1], count |-> 1]}
    /\ RecordOf(stored, freqSelect) = {[phase |-> [num |-> 0, den |-> 1], count |-> 1]}

\* C3 (as stated): after a scan is aborted the persisted record of the
\* active band is the one from before the scan started.
C3_AbortRestoresPreScanRecord ==
    lastOp = "abortScan" => RecordOf(stored, freqSelect) = RecordOf(preScan, freqSelect)

\* C3 (amended): aborting a scan writes nothing to the table, in memory or
\* persisted, clears the transient scan state and cancels the pending scan
\* timeout; the marks made during the scan stay merged, so the persisted
\* table is the pre-scan one when no mark was made during the scan.
C3_AbortWritesNothing ==
    /\ [][ lastOp' = "abortScan" =>
             /\ stored' = stored
             /\ bestPhaseByBand' = bestPhaseByBand
             /\ ~scanning' /\ scanTier' = 0 /\ scanIndex' = 0
             /\ Len(scanPhases') = 0 /\ DOMAIN scanCounts' = {}
             /\ timers' = {} ]_vars
    /\ [](lastOp = "abortScan" /\ ~scanTouched => stored = preScan)

\* C3 witness: a scan was aborted after a mark made during it, and the
\* persisted record of the active band differs from its pre-scan value.
C3_Witness ==
    /\ lastOp = "abortScan"
    /\ scanTouched
    /\ RecordOf(stored, freqSelect) # RecordOf(preScan, freqSelect)

\* C4 (as stated): after teardown of the audio graph no source is live and
\* no chord, birds-pattern or waves-pattern timer is pending.
C4_TeardownLeavesNothingLive ==
    masterGain = 0 =>
        /\ started = {}
        /\ chordTimer = 0 /\ birdsPatternTimer = 0 /\ wavesPatternTimer = 0

\* C5 (as stated): a chord-loop buffer resolving for a graph instance that
\* is no longer the live one changes neither the disposal list, the panner
\* list, the current loop source nor the set of started sources.
C5_StaleChordLoopDiscarded ==
    [][ \A req \in pendingChordLoads \ pendingChordLoads' :
          (lastOp' = "chordBufferLoaded" /\ req # masterGain) =>
              /\ extraNodes' = extraNodes
              /\ motionPanners' = motionPanners
              /\ chordBufferSource' = chordBufferSource
              /\ started' = started ]_vars

\* C6 (as stated): whenever a graph is live, the band it was built for is
\* the band selected in freqSelect.
C6_GraphBuiltForSelectedBand ==
    baseOsc # 0 => graphFreqHz = freqSelect

\* C7 (as stated): the tier-2 candidates are never all the same phase.
C7_Tier2NeverZeroWidth ==
    (scanning /\ scanTier = 2) =>
        \E i, j \in DOMAIN scanPhases : scanPhases[i] # scanPhases[j]

\* C8: a scan started from idle is in tier 1 at the first of the candidates
\* 0, 60, 120, 180, 240, 300, 360; throughout tier 1 the list is exactly
\* those seven, a timeout of 3000 + 1000 ms is pending, the candidates are
\* presented one index at a time in list order, and tier 1 ends only after
\* the seventh.
C8_Tier1State ==
    /\ lastOp = "startTwoTierScan" =>
           scanning /\ scanTier = 1 /\ scanIndex = 0 /\ phaseRange = 0
    /\ (scanning /\ scanTier = 1) =>
           /\ scanPhases = <<0, 60, 120, 180, 240, 300, 360>>
           /\ scanIndex \in 0..6
           /\ \E t \in timers : t.id = scanTimeoutId /\ t.delay = 3000 + 1000
           /\ \A t \in timers : t.id = scanTimeoutId

C8_Tier1Step ==
    /\ (scanning /\ scanTier = 1 /\ scanning' /\ scanTier' = 1
          /\ scanIndex' # scanIndex) =>
           /\ scanIndex' = scanIndex + 1
           /\ phaseRange' = 60 * scanIndex'
    /\ (scanning /\ scanTier = 1 /\ scanning' /\ scanTier' = 2) =>
           scanIndex = 6

C8_Tier1SevenCandidates == []C8_Tier1State /\ [][C8_Tier1Step]_vars

\* C8 witness: the seventh coarse candidate, 360, is being presented.
C8_Witness ==
    /\ scanning /\ scanTier = 1 /\ scanIndex = 6
    /\ lastOp = "scanTimeout" /\ phaseRange = 360

\* C9: for endpoints low and high the fine tier has exactly 7 candidates
\* (low + i * step) mod 360, i = 0..6, with span = (high - low + 360) mod 360
\* and step = span / 6, so the first is low and the last is high (mod 360);
\* its dwell is 5000 ms and its fade 3000 ms.
C9_Tier2EvenlySpaced ==
    callRet.op = "tier2" =>
        LET low == callArgs.low
            high == callArgs.high
            span == (high - low + 360) % 360
            step == span \div 6
        IN  /\ 6 * step = span
            /\ Len(callRet.phases) = 7
            /\ \A i \in 0..6 : callRet.phases[i + 1] = (low + i * step) % 360
            /\ callRet.phases[1] = low % 360
            /\ callRet.phases[7] = high % 360
            /\ callRet.dwell = 5000 /\ callRet.fade = 3000

\* C9 witness: the sweep 120, 130, ..., 180 computed from endpoints 120, 180.
C9_Witness ==
    /\ callRet.op = "tier2"
    /\ callArgs.low = 120 /\ callArgs.high = 180
    /\ callRet.phases = <<120, 130, 140, 150, 160, 170, 180>>

\* C10: on completion the best phase is the fine candidate with the most
\* marks, the first such on a tie; the phase slider is set to it, it is
\* the phase of the active band's record, and scanning, tier, candidate
\* list, counters and index are reset.
C10_BestIsFirstMostMarked ==
    callRet.op = "completed" =>
        LET best == callArgs.phases[TopIndex(callArgs.counts, 7, {}) + 1]
        IN  /\ callRet.phaseRange = best
            /\ RecordOf(callRet.record, freqSelect)
                   = {[phase |-> [num |-> best, den |-> 1], count |-> 1]}
            /\ callRet.stored = callRet.record
            /\ ~callRet.scanning /\ callRet.scanTier = 0
            /\ callRet.scanIndex = 0
            /\ Len(callRet.scanPhases) = 0
            /\ DOMAIN callRet.scanCounts = {}

\* C10 witness: candidates 150 and 170 of the sweep 120..180 are tied with
\* one mark each and 150, the earlier, is the best phase.
C10_Witness ==
    /\ callRet.op = "completed"
    /\ callArgs.phases = <<120, 130, 140, 150, 160, 170, 180>>
    /\ \A i \in 0..6 : callArgs.counts[i] = IF i \in {3, 5} THEN 1 ELSE 0
    /\ callRet.phaseRange = 150

\* C11: aborting a scan cancels its pending timer, so no scan-advance callback
\* fires for that scan afterwards; the scan state is Idle (scanning false,
\* tier 0, no candidates, no counters, index 0) and stays Idle until a new
\* scan is started.
C11_IdleState ==
    ~scanning =>
        /\ timers = {}
        /\ scanTier = 0
        /\ Len(scanPhases) = 0
        /\ DOMAIN scanCounts = {}
        /\ scanIndex = 0

C11_IdleStep ==
    /\ (~scanning /\ scanning') => lastOp' = "startTwoTierScan"
    /\ (~scanning /\ ~scanning') =>
           /\ scanTier' = 0 /\ scanIndex' = 0
           /\ scanPhases' = <<>> /\ scanCounts' = <<>>
           /\ lastOp' \notin {"scanTimeout", "scanComplete"}

C11_AbortCancelsScan == []C11_IdleState /\ [][C11_IdleStep]_vars

C11_Witness ==
    /\ lastOp = "abortScan"
    /\ ~scanning /\ timers = {} /\ scanTimeoutId # 0
    /\ scanTier = 0 /\ scanIndex = 0

\* C12: every mark updates the active band's record by the incremental mean:
\* a band without a record gets {mark, 1}, a record {p, n} becomes
\* {p + (mark - p)/(n + 1), n + 1}; the records of the other bands are
\* unchanged and the table is persisted. Marks 10, 20, 30 from an empty
\* record give phase 20 with count 3.
C12_MarkStep ==
    lastOp' = "mark" =>
        LET key  == freqSelect
            mark == phaseRange
            new  == bestPhaseByBand'[key]
        IN  /\ DOMAIN bestPhaseByBand' = DOMAIN bestPhaseByBand \cup {key}
            /\ IF key \notin DOMAIN bestPhaseByBand
               THEN new = [phase |-> [num |-> mark, den |-> 1], count |-> 1]
               ELSE LET p == bestPhaseByBand[key].phase
                        n == bestPhaseByBand[key].count
                        q == new.phase
                    IN  /\ new.count = n + 1
                        /\ (q.num * p.den - p.num * q.den) * (n + 1)
                              = (mark * p.den - p.num) * q.den
            /\ \A b \in DOMAIN bestPhaseByBand \ {key} :
                  bestPhaseByBand'[b] = bestPhaseByBand[b]
            /\ stored' = bestPhaseByBand'

C12_MarkIsIncrementalMean == [][C12_MarkStep]_vars

C12_Witness ==
    /\ lastOp = "mark"
    /\ ~scanning
    /\ phaseRange = 30
    /\ RecordOf(bestPhaseByBand, 783) =
           {[phase |-> [num |-> 20, den |-> 1], count |-> 3]}
    /\ RecordOf(bestPhaseByBand, 1430) =
           {[phase |-> [num |-> 90, den |-> 1], count |-> 1]}

\* C13 as stated: in every reachable state every stored record has
\* 0 <= phase < 360 and count >= 0.
C13_PhaseBelowFullCircle ==
    \A t \in {bestPhaseByBand, stored} : \A b \in DOMAIN t :
        /\ 0 <= t[b].phase.num
        /\ t[b].phase.num < 360 * t[b].phase.den
        /\ t[b].count >= 0

\* C13: in every reachable state every stored record has 0 <= phase <= 360
\* (360 itself is stored by a mark on the closing Tier-1 candidate) and
\* count >= 1, whatever marks by hand, during autosweep or during a scan and
\* whatever scan completions produced it.
C13_PhaseWithinFullCircle ==
    \A t \in {bestPhaseByBand, stored} : \A b \in DOMAIN t :
        /\ 0 <= t[b].phase.num
        /\ t[b].phase.num <= 360 * t[b].phase.den
        /\ t[b].phase.den >= 1
        /\ t[b].count >= 1

C13_Witness ==
    /\ lastOp = "mark"
    /\ scanning /\ scanTier = 1 /\ scanIndex = 6
    /\ RecordOf(stored, freqSelect) =
           {[phase |-> [num |-> 360, den |-> 1], count |-> 1]}

\* C14: while a scan presents candidate i, each mark increments that
\* candidate's counter by exactly 1, without an upper cap, and leaves every
\* other candidate's counter and the scan position unchanged; a mark made
\* when no scan is in progress changes no scan counter.
C14_MarkStep ==
    lastOp' = "mark" =>
        IF scanning
        THEN /\ Marks(scanCounts', scanIndex) = Marks(scanCounts, scanIndex) + 1
             /\ \A i \in (DOMAIN scanCounts \cup DOMAIN scanCounts'
                            \cup (0..(CandidateCount - 1))) \ {scanIndex} :
                   Marks(scanCounts', i) = Marks(scanCounts, i)
             /\ scanIndex' = scanIndex /\ scanTier' = scanTier
             /\ scanPhases' = scanPhases /\ scanning'
        ELSE /\ scanCounts' = scanCounts
             /\ DOMAIN scanCounts' = {}
             /\ ~scanning'

C14_MarkCountsPresentedCandidate == [][C14_MarkStep]_vars

C14_Witness ==
    /\ lastOp = "mark"
    /\ scanning /\ scanIndex = 1
    /\ Marks(scanCounts, 0) = 1
    /\ Marks(scanCounts, 1) = 2

\* C15: a started scan goes Idle -> Tier 1 -> Tier 2 -> Completed and never
\* from Tier 2 back to Tier 1. When it is not aborted and its timers keep
\* firing, every firing advances it by one position, it presents exactly 7
\* candidates in Tier 1 and then exactly 7 in Tier 2, the 14th firing
\* completes it, and scanning is false afterwards.
C15_Position == CandidateCount * (scanTier - 1) + scanIndex

C15_ScanState ==
    /\ scanning =>
           /\ scanTier \in {1, 2}
           /\ scanIndex \in 0..(CandidateCount - 1)
           /\ Len(scanPhases) = CandidateCount
           /\ Cardinality(timers) = 1
    /\ ~scanning => scanTier = 0 /\ timers = {}

C15_ScanStep ==
    /\ (~scanning /\ scanning') =>
           /\ lastOp' = "startTwoTierScan"
           /\ scanTier' = 1 /\ scanIndex' = 0
    /\ (scanning /\ scanning') => scanTier' >= scanTier
    /\ (scanning /\ lastOp' \in {"scanTimeout", "scanComplete"}) =>
           IF C15_Position < 2 * CandidateCount - 1
           THEN /\ scanning' /\ lastOp' = "scanTimeout"
                /\ C15_Position' = C15_Position + 1
           ELSE /\ ~scanning' /\ lastOp' = "scanComplete"
    /\ (scanning /\ lastOp' \notin {"scanTimeout", "scanComplete"}) =>
           /\ scanning'
           /\ scanTier' = scanTier /\ scanIndex' = scanIndex

C15_Completes ==
    (scanning /\ scanTier = 1 /\ scanIndex = 0)
        ~> (~scanning /\ lastOp = "scanComplete")

C15_ScanRunsToCompletion ==
    []C15_ScanState /\ [][C15_ScanStep]_vars /\ C15_Completes

C15_Witness ==
    /\ lastOp = "scanComplete"
    /\ ~scanning /\ scanTier = 0 /\ timers = {}
    /\ scanTimeoutId # 0

\* C16 (as stated): teardown is idempotent and safe; after stopCurrentAudio
\* has run twice in a row, from any state including a never-built graph, the
\* state equals the state after the first call and holds no live node and no
\* graph timer.
C16_TeardownTwiceLeavesNothing ==
    LET once  == StopCurrentAudio(St)
        twice == StopCurrentAudio(once)
    IN  /\ twice = once
        /\ twice.masterGain = 0 /\ twice.baseOsc = 0
        /\ twice.extraNodes = {} /\ twice.motionPanners = {}
        /\ twice.chordOscs = {} /\ twice.chordBufferSource = 0
        /\ twice.chordTimer = 0
        /\ twice.birdsPatternTimer = 0 /\ twice.wavesPatternTimer = 0
        /\ twice.started = {}

\* clamp(x, lo, hi) on rationals.
Clamp(x, lo, hi) == IF RatLeq(x, lo) THEN lo ELSE IF RatLeq(hi, x) THEN hi ELSE x

\* C19: for a finite rms > 0 the wet gain is
\* clamp(baseWet * clamp(0.12/rms, 0.05, 1.5), 0.03, 0.95) with baseWet 0.42
\* for Temple and 0.58 for Forest, so it lies in [0.03, 0.95]; rms = 0.12
\* gives compensation 1 and 0.42 for Temple; an rms that is zero or not
\* finite gives baseWet unmodified.
C19_WetGainCompensated ==
    callRet.op = "wetGain" =>
        LET buf  == callArgs.buffer
            base == IF callArgs.name = "temple" THEN Rat(42, 100)
                    ELSE Rat(58, 100)
            rms  == IF buf.present /\ buf.channels > 0 /\ buf.length > 0
                    THEN buf.level ELSE Rat(0, 1)
            wet  == callRet.value
        IN  IF IsFinite(rms) /\ rms.num > 0
            THEN LET comp == Clamp(RatDiv(Rat(12, 100), rms),
                                   Rat(5, 100), Rat(15, 10))
                 IN  /\ wet = Clamp(RatMul(base, comp), Rat(3, 100), Rat(95, 100))
                     /\ RatLeq(Rat(3, 100), wet) /\ RatLeq(wet, Rat(95, 100))
                     /\ rms = Rat(12, 100) => comp = Rat(1, 1) /\ wet = base
            ELSE wet = base

C19_Witness ==
    /\ callRet.op = "wetGain"
    /\ callArgs.name = "temple"
    /\ callArgs.buffer.present
    /\ callArgs.buffer.channels = 2 /\ callArgs.buffer.length = 1
    /\ callArgs.buffer.level = Rat(12, 100)
    /\ callRet.value = Rat(42, 100)

\* |a - b| on rationals.
AbsDiff(a, b) == IF RatLeq(a, b) THEN RatSub(b, a) ELSE RatSub(a, b)

C17_SilentState ==
    /\ \A g \in DOMAIN irNodes :
          irNodes[g].buffer = "none" => irNodes[g].wet = Rat(0, 1)
    /\ \A l \in pendingIRLoads :
          l.build \in DOMAIN irNodes /\ irNodes[l.build].buffer = "none"
    /\ (masterGain # 0 /\ selectedIR # "none") =>
          /\ masterGain \in DOMAIN irNodes
          /\ {<<"conv", masterGain>>, <<"wetGain", masterGain>>}
                \subseteq extraNodes
          /\ baseOsc = masterGain
          /\ {<<"baseOsc", masterGain>>, <<"oceanSource", masterGain>>,
              <<"rainSource", masterGain>>} \subseteq started

C17_SilentStep ==
    /\ \A g \in DOMAIN irNodes :
          irNodes'[g] # irNodes[g] =>
              /\ lastOp' = "irLoadResolved"
              /\ \E l \in pendingIRLoads \ pendingIRLoads' : l.build = g
    /\ lastOp' = "irLoadFailed" =>
          /\ irNodes' = irNodes
          /\ masterGain' = masterGain /\ baseOsc' = baseOsc
          /\ started' = started /\ extraNodes' = extraNodes
    /\ \A g \in DOMAIN irNodes' \ DOMAIN irNodes :
          \/ irNodes'[g] = [buffer |-> "none", wet |-> Rat(0, 1)]
          \/ selectedIR' \in irBuffers /\ irNodes'[g].buffer = selectedIR'

C17_WetGainSilentUntilLoaded == []C17_SilentState /\ [][C17_SilentStep]_vars

C17_Witness ==
    /\ lastOp = "irLoadFailed"
    /\ masterGain # 0 /\ selectedIR = "temple"
    /\ masterGain \in DOMAIN irNodes
    /\ irNodes[masterGain] = [buffer |-> "none", wet |-> Rat(0, 1)]
    /\ \A l \in pendingIRLoads : l.build # masterGain
    /\ <<"baseOsc", masterGain>> \in started

\* C18 (as stated): an impulse response that resolves after the build that
\* requested it was torn down, by a stop or by a rebuild, changes no
\* convolver buffer and no wet gain.
C18_StaleStep ==
    lastOp' = "irLoadResolved" =>
        \A l \in pendingIRLoads \ pendingIRLoads' :
            l.build # masterGain => irNodes' = irNodes

C18_StaleImpulseResponseDiscarded == [][C18_StaleStep]_vars

\* The band, in Hz, the live graph was built for.
GraphBand == Rat(graphFreqHz, 100)

\* C21 (as stated): a live Binaural graph has its two oscillators centred on
\* the carrier slider: left = carrier + band/2 and right = carrier - band/2,
\* as stored in single precision (233.915 Hz and 226.085 Hz for a carrier of
\* 230 Hz and the 7.83 Hz band), also after the slider moved during playback.
C21_BinauralCentredOnCarrier ==
    (masterGain # 0 /\ tone.mode = "binaural") =>
        /\ tone.leftFreq =
             ToFloat32(RatAdd(FromInt(carrierRange),
                              RatDiv(GraphBand, FromInt(2))))
        /\ tone.rightFreq =
             ToFloat32(RatSub(FromInt(carrierRange),
                              RatDiv(GraphBand, FromInt(2))))

\* The live graph is a Spatial Echo build.
SpatialLive == masterGain # 0 /\ tone.mode = "spatial"

\* The split fraction and the two offsets of a Spatial Echo build: r lies in
\* [0.35, 0.65], leftOffset = band * r, rightOffset = band * (1 - r) and the
\* offsets sum to the band.
SplitOffsets ==
    /\ RatLeq(Rat(35, 100), tone.randFrac)
    /\ RatLeq(tone.randFrac, Rat(65, 100))
    /\ tone.leftDiff = RatMul(GraphBand, tone.randFrac)
    /\ tone.rightDiff = RatMul(GraphBand, RatSub(FromInt(1), tone.randFrac))
    /\ RatAdd(tone.leftDiff, tone.rightDiff) = GraphBand

C22_DrawStep ==
    (gen' # gen /\ tone'.mode = "spatial") =>
        tone'.randFrac = RatAdd(Rat(35, 100), RatMul(mathRandom, Rat(30, 100)))

\* C22: in every Spatial Echo build r is drawn for that build in
\* [0.35, 0.65], leftOffset = band * r, rightOffset = band * (1 - r),
\* leftOffset + rightOffset = band, and the echo oscillators hold the
\* single-precision values nearest to centre + leftOffset and
\* centre - rightOffset, so that their difference equals the band to within
\* 2^-16 Hz.
C22_SplitState ==
    SpatialLive =>
        LET centre == MapBandToAudible(GraphBand)
        IN  /\ SplitOffsets
            /\ RatLeq(AbsDiff(tone.leftFreq, RatAdd(centre, tone.leftDiff)),
                      Rat(1, 131072))
            /\ RatLeq(AbsDiff(tone.rightFreq, RatSub(centre, tone.rightDiff)),
                      Rat(1, 131072))
            /\ RatLeq(tone.rightFreq, tone.leftFreq)
            /\ RatLeq(AbsDiff(RatSub(tone.leftFreq, tone.rightFreq), GraphBand),
                      Rat(1, 65536))

C23_AmbientHasEchoOscillators ==
    (masterGain # 0 /\ tone.mode = "ambient") =>
        /\ tone.baseGain = Rat(0, 1)
        /\ ambienceTaps = {"oceanGain", "rainGain", "birdsGain", "wavesGain"}
        /\ {<<"leftEchoOsc", masterGain>>, <<"rightEchoOsc", masterGain>>}
               \subseteq (extraNodes \cap started)
        /\ "leftDiff" \in DOMAIN tone /\ "rightDiff" \in DOMAIN tone
        /\ RatAdd(tone.leftDiff, tone.rightDiff) = GraphBand

\* The selection handlers: mode pill, chord instrument, chord loop, reverb.
SelectionOps == {"modePill", "chordSelect", "chordLoopSelect",
                 "irSelectChange"}

\* A selection step on a running engine leaves a graph made of the nodes of
\* one new build only (the old graph was torn down before the new one was
\* built); on a stopped engine it builds nothing.
C24_RebuildStep ==
    lastOp' \in SelectionOps =>
        IF baseOsc # 0
        THEN /\ gen' = gen + 1
             /\ masterGain' = gen' /\ baseOsc' = gen'
             /\ \A n \in extraNodes' \cup chordOscs' : n[2] = gen'
             /\ <<"baseOsc", gen>> \notin started'
        ELSE gen' = gen /\ masterGain' = 0 /\ extraNodes' = extraNodes

\* The live graph was built for the current mode.
LiveModeIsSelected == tone.mode = stimulationMode

\* The live graph's reverb branch is the selected space's.
LiveReverbIsSelected ==
    IF selectedIR = "none"
    THEN <<"conv", masterGain>> \notin extraNodes
    ELSE /\ <<"conv", masterGain>> \in extraNodes
         /\ masterGain \in DOMAIN irNodes
         /\ irNodes[masterGain].buffer \in {"none", selectedIR}

\* The live graph's chord layer is the selected instrument's and loop's.
LiveChordIsSelected ==
    /\ chordInstrument = "none" =>
           /\ chordOscs = {} /\ chordBufferSource = 0 /\ chordTimer = 0
           /\ \A n \in started : n[1] \notin {"chordOsc", "chordLoopSrc"}
    /\ (chordInstrument # "none" /\ chordManifest /\ selectedChordLoop # "") =>
           /\ chordOscs = {} /\ chordTimer = 0
    /\ (chordInstrument # "none" /\ ~(chordManifest /\ selectedChordLoop # "")) =>
           /\ chordOscs = {<<"chordOsc", masterGain>>}
           /\ chordBufferSource = 0

C24_LiveState ==
    masterGain # 0 =>
        LiveModeIsSelected /\ LiveReverbIsSelected /\ LiveChordIsSelected

\* C24 (as stated): a mode, chord instrument, chord loop or reverb selection
\* on a running engine tears the graph down and then builds a new one, on a
\* stopped engine it builds nothing, and the live graph's mode, chord and
\* reverb settings always equal the current selection.
C24_LiveGraphMatchesSelection == []C24_LiveState /\ [][C24_RebuildStep]_vars

\* The elements of a sequence.
Range(seq) == {seq[i] : i \in DOMAIN seq}

\* How many keywords of a list an entry matches.
Matches(list, entry) ==
    Cardinality({i \in DOMAIN list : list[i] \in entry.keys})

\* Two entries agree in tempo and in every keyword that is neither a
\* favorite nor a meditation keyword.
SameOtherwise(a, b, prefs) ==
    LET own == Range(prefs.favoriteKeywords) \cup Range(prefs.meditationKeywords)
    IN  a.bpm = b.bpm /\ a.keys \ own = b.keys \ own

\* C25: sortChordLoops returns every entry once, ordered by score, highest
\* first, and by name among equal scores; of two entries that agree in tempo
\* and in the base and avoid keywords, the one matching one favorite keyword
\* scores at least 45 - 14 more than, and is ranked before, the one matching
\* only one meditation keyword.
C25_FavoriteOutranksMeditation ==
    callRet.op = "sortChordLoops" =>
        LET ranked == callRet.ranked
            prefs  == callArgs.prefs
        IN  /\ Len(ranked) = Len(callArgs.loops)
            /\ {ranked[i].loop : i \in DOMAIN ranked} = Range(callArgs.loops)
            /\ \A i, j \in DOMAIN ranked :
                  i < j =>
                     /\ ranked[i].score >= ranked[j].score
                     /\ ranked[i].score = ranked[j].score =>
                            ranked[i].loop.name <= ranked[j].loop.name
            /\ \A i, j \in DOMAIN ranked :
                  ( /\ SameOtherwise(ranked[i].loop, ranked[j].loop, prefs)
                    /\ Matches(prefs.favoriteKeywords, ranked[i].loop) = 1
                    /\ Matches(prefs.favoriteKeywords, ranked[j].loop) = 0
                    /\ Matches(prefs.meditationKeywords, ranked[j].loop) = 1 )
                  => /\ ranked[i].score - ranked[j].score >= 45 - 14
                     /\ i < j

\* The catalog lists a meditation-only entry before a favorite-only entry
\* and the ranking puts the favorite first.
C25_Witness ==
    /\ callRet.op = "sortChordLoops"
    /\ callArgs.loops[1].keys = {"calm"} /\ callArgs.loops[2].keys = {"cm"}
    /\ callArgs.loops[1].bpm = callArgs.loops[2].bpm
    /\ callArgs.loops[1].name < callArgs.loops[2].name
    /\ callArgs.prefs.favoriteKeywords = <<"cm">>
    /\ callRet.ranked[1].loop.idx = 2 /\ callRet.ranked[1].score = 45
    /\ callRet.ranked[2].loop.idx = 1 /\ callRet.ranked[2].score = 14

\* The options of all groups of a selector, in display order.
RECURSIVE AllOptions(_)
AllOptions(groups) ==
    IF groups = <<>> THEN <<>>
    ELSE Head(groups).options \o AllOptions(Tail(groups))

\* Place of a label in the fixed display order.
GroupRank(label) ==
    CASE label = "Recommended" -> 0
      [] label = "Reference / Favorites" -> 1
      [] label = "Mammoth Synth Chords" -> 2
      [] label = "Schumann App Audio Samples" -> 3
      [] label = "Cool Keys" -> 4
      [] label = "Other" -> 5

\* C26 (as stated): for a catalog of N >= 1 entries the selector's first
\* group is Recommended with the top min(8, N) ranked entries, the first
\* marked as top pick; every other entry is in the group of its category, the
\* groups are in the fixed order, and every catalog entry is an option
\* exactly once, also when entries share a file.
C26_EveryEntryListedOnce ==
    (callArgs.op = "catalog" /\ callRet.op = "updateChordLoopUI") =>
        LET groups == callRet.groups
            loops  == callArgs.loops
            ranked == SortChordLoops(loops, callArgs.prefs)
            n      == IF Len(loops) < 8 THEN Len(loops) ELSE 8
            all    == AllOptions(groups)
        IN  /\ groups[1].label = "Recommended"
            /\ Len(groups[1].options) = n
            /\ \A i \in 1..n :
                  /\ groups[1].options[i].entry = ranked[i].loop.idx
                  /\ groups[1].options[i].topPick = (i = 1)
            /\ \A g, h \in DOMAIN groups :
                  g < h => GroupRank(groups[g].label) < GroupRank(groups[h].label)
            /\ \A g \in DOMAIN groups : \A i \in DOMAIN groups[g].options :
                  g > 1 =>
                     /\ groups[g].options # <<>>
                     /\ GetLoopCategory(loops[groups[g].options[i].entry])
                            = groups[g].label
            /\ \A e \in DOMAIN loops :
                  Cardinality({i \in DOMAIN all : all[i].entry = e}) = 1

\* C27 (as stated): for every instrument other than None whose catalog is
\* empty or missing, the selector signals that no loops are available and
\* the build plays the synthesised cycle of 3 chords, 30 s each, with the
\* instrument's waveform.
C27_NoLoopsSignalled ==
    (callArgs.op = "noLoops" /\ callRet.op = "startChordProgression") =>
        /\ ~callRet.row.hidden /\ callRet.row.text # ""
        /\ callRet.chord = SynthProgression(callArgs.instrument)

\* The waveform of the synthesised progression, by instrument.
Waveform(instrument) ==
    CASE instrument = "piano" -> "sine"
      [] instrument = "harp" -> "triangle"
      [] instrument = "synth" -> "sawtooth"
      [] instrument = "guitar" -> "square"

\* C27: for every instrument other than None whose catalog is empty or
\* missing the build plays the synthesised cycle of 3 chords, 30 s each, with
\* the instrument's waveform and no loop is selected; the selector shows a
\* disabled "no loops" option only for guitar with a loaded manifest, and is
\* hidden for every other instrument and whenever the manifest is not loaded.
C27_NoLoopsFallsBackToSynth ==
    (callArgs.op = "noLoops" /\ callRet.op = "startChordProgression") =>
        /\ callRet.chord = [layer |-> "synth",
                            waveform |-> Waveform(callArgs.instrument),
                            chords |-> 3, intervalMs |-> 30000]
        /\ callRet.row.selectedChordLoop = ""
        /\ IF callArgs.instrument = "guitar" /\ callArgs.manifest # "null"
           THEN ~callRet.row.hidden /\ callRet.row.disabled
                /\ callRet.row.text # ""
           ELSE callRet.row.hidden /\ callRet.row.text = ""

\* Harp with an empty catalog: hidden selector, triangle-wave progression.
C27_Witness ==
    /\ callArgs.op = "noLoops" /\ callRet.op = "startChordProgression"
    /\ callArgs.instrument = "harp" /\ callArgs.manifest = "empty"
    /\ callRet.row.hidden
    /\ callRet.chord.waveform = "triangle"

\* The graph is torn down and no tick of the session timer is pending.
SessionEnded ==
    /\ masterGain = 0 /\ baseOsc = 0 /\ extraNodes = {} /\ tone = NoTone
    /\ \A n \in started : n[1] \notin {"baseOsc", "oceanSource", "rainSource"}
    /\ medTicks = {} /\ medTimerId = 0

\* At most the last scheduled tick is pending, and none when no session is
\* running.
C28_NoStaleTick ==
    /\ medTicks \subseteq {medTimerId}
    /\ ~medPlayDisabled => medTicks = {}

\* A manual stop and the expiry of the timer leave the session ended.
C28_EndStep ==
    lastOp' \in {"stopMeditation", "medTimerExpired"} => SessionEnded'

\* C28: a session of finite length always ends, by the expiry of its timer
\* or by a manual stop, with the graph torn down; after either no tick of
\* the session timer is pending, and at no time is a tick other than the
\* last scheduled one pending, so that no stale tick can stop a later
\* session.
C28_SessionEndsStopped ==
    /\ []C28_NoStaleTick
    /\ [][C28_EndStep]_vars
    /\ (medTicks # {}) ~>
           (lastOp \in {"stopMeditation", "medTimerExpired"} /\ SessionEnded)

\* The timer of a session started after an earlier build has expired.
C28_Witness ==
    /\ lastOp = "medTimerExpired"
    /\ gen = 2
    /\ SessionEnded
    /\ ~medPlayDisabled

\* The load requested by the live build settles without a buffer: the
\* request is gone and startChordLoop has added no node.
ChordLoadFailedLive ==
    /\ lastOp' = "chordBufferLoaded"
    /\ masterGain # 0
    /\ masterGain \in pendingChordLoads \ pendingChordLoads'
    /\ extraNodes' = extraNodes

\* C29 (as stated): when the selected loop's buffer cannot be loaded, the
\* build plays the synthesised triad progression instead of nothing.
C29_FailStep ==
    ChordLoadFailedLive =>
        /\ chordOscs' = {<<"chordOsc", masterGain>>}
        /\ <<"chordOsc", masterGain>> \in started'
        /\ chordTimer' # 0

C29_FailedLoopFallsBackToSynth == [][C29_FailStep]_vars

\* C30 (as stated): while a guided scan is in progress the audio graph is
\* live, because every teardown (stopExplore, stopMeditation, expiry of the
\* session timer) also ends the scan and cancels its timer.
C30_ScanningImpliesLiveGraph ==
    scanning => (masterGain # 0 /\ baseOsc # 0)


\* A candidate of the guided scan is being presented: its timeout is pending.
Presenting ==
    /\ scanning
    /\ timers # {}
    /\ scanIndex < Len(scanPhases)

\* C31 (as stated): while the scan presents candidate i the phase slider,
\* which every mark reads, holds candidates[i]; no other operation
\* (autosweep, fine-tune sweep, the slider itself, startMeditation) moves it
\* before the candidate's timeout fires.
C31_PhaseIsPresentedCandidate ==
    Presenting => phaseRange = scanPhases[scanIndex + 1]

\* A step taken while the scan is in progress leaves the explore band
\* selection, the key of every record the scan writes, where it was.
C32_BandStep ==
    scanning => freqSelect' = freqSelect

\* C32 (as stated): the record written at scan completion and every mark
\* made during the scan go under the band selected when the scan started,
\* because the explore band selection cannot change between the start of a
\* scan and its completion or abort.
C32_ScanKeepsBand == [][C32_BandStep]_vars


\* The chord loop sources that were started and have not been stopped.
LoopSourcesPlaying == {n \in started : n[1] = "chordLoopSrc"}

\* C33 (as stated): at most one pre-rendered chord loop source is started
\* and not yet stopped, also when the graph is rebuilt while a chord loop
\* buffer is still loading.
C33_AtMostOneLoopSource == Cardinality(LoopSourcesPlaying) <= 1

\* The operations that change the in-memory best-phase table.
TableOps == {"mark", "scanComplete", "clearBestPhase", "clearHistory"}

\* C34 (as stated): after every operation that changes the in-memory table
\* (a mark, a scan completion, clearing the current band's best phase,
\* clearing all history) the persisted store holds the same records, so
\* that a reload restores the current table.
C34_StoreEqualsTable ==
    lastOp \in TableOps => stored = bestPhaseByBand

\* The handlers that restart a running graph after a settings change.
RebuildOps ==
    {"modePill", "updateCarrierLabel", "chordSelect", "chordLoopSelect",
     "irSelectChange"}

\* A settings change has replaced a live graph by a new one.
Rebuilt ==
    /\ lastOp' \in RebuildOps
    /\ masterGain # 0
    /\ masterGain' \notin {0, masterGain}

C35_RebuildStep == Rebuilt => graphFreqHz' = graphFreqHz

\* C35 (as stated): a rebuild triggered by a change of mode, carrier pitch,
\* chord instrument or loop, or reverb space builds the new graph for the
\* band of the graph it replaces, also during a meditation session started
\* on the meditation band selector.
C35_RebuildKeepsBand == [][C35_RebuildStep]_vars

\* C36: in every reachable state scanning is true exactly when scanTier is
\* 1 or 2; at most one scan-advance timer is pending, and only while
\* scanning; while one is pending the candidate list has exactly seven
\* entries and scanIndex is one of 0..6; and startTwoTierScan called while
\* a scan is in progress changes nothing.
C36_ScanStateConsistent ==
    /\ scanning <=> scanTier \in {1, 2}
    /\ Cardinality(timers) <= 1
    /\ timers # {} =>
           /\ scanning
           /\ Len(scanPhases) = CandidateCount
           /\ scanIndex \in 0..(CandidateCount - 1)
    /\ scanning => StartTwoTierScan(St) = St

\* The last candidate of the fine tier is being presented.
C36_Witness ==
    /\ scanning /\ scanTier = 2
    /\ scanIndex = CandidateCount - 1
    /\ Len(scanPhases) = CandidateCount
    /\ Cardinality(timers) = 1

\* A step other than a mark creates no record and changes no record's mark
\* count; it may delete records.
C37_CountStep ==
    lastOp' # "mark" =>
        \A b \in DOMAIN bestPhaseByBand' :
            /\ b \in DOMAIN bestPhaseByBand
            /\ bestPhaseByBand'[b].count = bestPhaseByBand[b].count

\* C37 (as stated): a record's mark count is the number of marks recorded
\* for its band since the record was last cleared: no operation other than
\* a mark creates a record or changes its count, in particular not the
\* completion of a scan in which no mark was made.
C37_OnlyMarksCount == [][C37_CountStep]_vars

\* The file with the given name, among those a listing can hold.
FilesNamed(n) == {f \in AssetFiles : f.name = n}

\* C38 (as stated): resolving a logical name only ever returns a file of
\* that name's candidate list or one discovered because its name contains
\* the name's keyword; a listing holding only another asset's file never
\* makes that file the result.
C38_ResultBelongsToName ==
    (callRet.op = "resolved" /\ callRet.file # "null") =>
        \/ callRet.file \in Range(CandidateNames(callArgs.name))
        \/ \E f \in FilesNamed(callRet.file) : callArgs.name \in f.has
====
